---- MODULE Spec2Model ----
(***************************************************************************)
(* A model of the wavie-claude-bot services:                               *)
(*   - conversation.Store   (gpt-agent-proxy-svc ... main.go, 82-207)      *)
(*   - DocumentService      (claude proxy, unnamed/part_007)               *)
(*   - Handler.handleSlackEvents (events listener, unnamed/part_003)       *)
(* Each service has its own specification (SpecStore, SpecIndex,           *)
(* SpecEvents); the variables of the other services stay at their initial  *)
(* values.                                                                 *)
(***************************************************************************)
EXTENDS Integers, Sequences, FiniteSets, TLC

VARIABLES
    \* ---- conversation.Store ----
    now,        \* the wall clock read by time.Now() / time.Since()
    store,      \* Store.conversations and the ConversationContext objects it points to
    mutex,      \* Store.mutex (sync.RWMutex): writer and readers holding it
    pc,         \* per caller goroutine: where it is inside AddMessage / GetMessages
    arg,        \* per caller goroutine: threadID, role, content of the running call
    context,    \* per caller goroutine: the *ConversationContext GetOrCreate returned
    returned,   \* the GetMessages call that returned in the last step, and its result
    cpc,        \* the cleanupRoutine goroutine: idle or inside cleanup()
    \* ---- history variables of the store ----
    recent,     \* per thread: the last maxMessages messages AddMessage appended to it
    nAppended,  \* per thread: how many messages AddMessage appended to it
    expired,    \* per thread: whether its entry was ever older than maxAge
    adds,       \* number of AddMessage calls started
    shadow,     \* the same store driven by the same calls, on which cleanup never runs
    scontext,   \* per caller goroutine: the context GetOrCreate returned on shadow
    \* ---- DocumentService / ClaudeProxyService ----
    docService, \* DocumentService.documents, .chunks, .keywords
    maxContextChunks, \* Config.MaxContextChunks
    serving,    \* main has reached server.ListenAndServe()
    loading,    \* per LoadDocuments call: where it is inside LoadFromZip
    loads,      \* number of /api/refresh-docs requests served
    searching,  \* the running SearchRelevantChunks call and its chunkScores
    \* ---- history variables of the index ----
    found,      \* the last finished search: its result and what it read
    prev,       \* the finished search before it
    \* ---- events listener ----
    processedEvents, \* per listener: Handler.processedEvents
    request,    \* per connection: the POST /slack/events request being served
    goroutines, \* per listener and event id: spawned handler goroutines not yet run
    \* ---- history variables of the listener ----
    handled,    \* per listener and event id: how many times a handler ran for it
    delivered,  \* number of requests received
    \* ---- DocumentService used by one caller at a time ----
    input,      \* the corpus, the query and maxChunks of the run
    service,    \* DocumentService.documents, .chunks, .keywords
    phase,      \* what the caller did last
    indexed,    \* the service as each LoadFromZip left it
    results,    \* what each SearchRelevantChunks returned
    \* ---- broadcast service ----
    processedMessages, \* per broadcaster: the correlation ids marked processed
    call,       \* per connection: the request being served and its answer
    posted,     \* per broadcaster and correlation id: messages posted to the channel
    requests,   \* number of requests received
    \* ---- handling of mentions ----
    conversationStore, \* the listener's conversation.Store
    mention,    \* per handler goroutine: its position, thread, history and prompt
    turns,      \* number of mentions handled so far
    clock,      \* the listener's time
    \* ---- size-capped maps of seen identifiers ----
    seen,       \* per service: the map of processed identifiers
    lastMarked, \* per service: the followed identifier marked last, if it was the last mark
    asked,      \* the last isEventProcessed / isMessageProcessed call and its answer
    marks       \* number of identifiers marked

storeVars == <<now, store, mutex, pc, arg, context, returned, cpc,
               recent, nAppended, expired, adds, shadow, scontext>>

indexVars == <<docService, maxContextChunks, serving, loading, loads, searching, found, prev>>

eventVars == <<processedEvents, request, goroutines, handled, delivered>>

seqVars == <<input, service, phase, indexed, results>>

broadcastVars == <<processedMessages, call, posted, requests>>

mentionVars == <<conversationStore, mention, turns, clock>>

pruneVars == <<seen, lastMarked, asked, marks>>

vars == <<storeVars, indexVars, eventVars, seqVars, broadcastVars, mentionVars, pruneVars>>

\* ------------------------------------------------------------------------
\* Bounds of the model
\* ------------------------------------------------------------------------
MaxTime == 2
MaxAdds == 3

\* NewStore(maxMessages, maxAge): the limits handed to the constructor.
maxMessages == 2
maxAge == 1

Threads == {"t1", "t2"}
Procs == {"p1", "p2"}
\* The calls the caller goroutines make: p1 appends user turns, p2 assistant turns.
Roles == {"user", "assistant"}
Contents == {"hi", "ok"}
Inputs(p) == IF p = "p1" THEN {<<"user", "hi">>} ELSE {<<"assistant", "ok">>}

NoThread == "none"
NoCtx == 0
CtxIds == 1 .. (Cardinality(Threads) + Cardinality(Procs))

\* type Message struct { Role, Content, Timestamp }
Message(role, content, ts) == [Role |-> role, Content |-> content, Timestamp |-> ts]

\* ------------------------------------------------------------------------
\* conversation.Store as a value: conversations maps a thread id to a
\* context pointer (NoCtx: no entry); Messages and LastAccessed are the
\* fields of the ConversationContext objects.
\* ------------------------------------------------------------------------
EmptyStore ==
    [conversations |-> [t \in Threads |-> NoCtx],
     Messages      |-> [c \in CtxIds |-> <<>>],
     LastAccessed  |-> [c \in CtxIds |-> 0]]

Referenced(st, held) == {st.conversations[t] : t \in Threads} \cup held

\* The Go runtime frees a context nothing points to: its cell is blank again.
Collect(st, held) ==
    [st EXCEPT
       !.Messages     = [c \in CtxIds |-> IF c \in Referenced(st, held)
                                          THEN st.Messages[c] ELSE <<>>],
       !.LastAccessed = [c \in CtxIds |-> IF c \in Referenced(st, held)
                                          THEN st.LastAccessed[c] ELSE 0]]

\* &ConversationContext{...}: a context object no one points to yet.
NewContext(st, held) ==
    CHOOSE c \in CtxIds :
        /\ c \notin Referenced(st, held)
        /\ \A d \in CtxIds : d \notin Referenced(st, held) => c <= d

\* time.Since(context.LastAccessed) > s.maxAge
TooOld(st, c, t) == t - st.LastAccessed[c] > maxAge

\* GetOrCreate line 141: the entry of the thread exists and is too old.
Stale(st, threadID, t) ==
    st.conversations[threadID] # NoCtx /\ TooOld(st, st.conversations[threadID], t)

\* GetOrCreate that sets LastAccessed only when it creates the entry.
GetOrCreateNoSlide(st, held, threadID, t) ==
    LET exists == st.conversations[threadID] # NoCtx
        c      == IF exists THEN st.conversations[threadID] ELSE NewContext(st, held)
        st1    == IF exists THEN st
                  ELSE [st EXCEPT !.conversations[threadID] = c,
                                  !.Messages[c] = <<>>,
                                  !.LastAccessed[c] = t]
        st2    == IF TooOld(st1, c, t) THEN [st1 EXCEPT !.Messages[c] = <<>>] ELSE st1
    IN  [store |-> st2, context |-> c]

\* Store.GetOrCreate (the section between Lock and the deferred Unlock).
GetOrCreate(st, held, threadID, t) ==
    LET exists == st.conversations[threadID] # NoCtx
        c      == IF exists THEN st.conversations[threadID] ELSE NewContext(st, held)
        st1    == IF exists THEN st
                  ELSE [st EXCEPT !.conversations[threadID] = c,
                                  !.Messages[c] = <<>>,
                                  !.LastAccessed[c] = t]
        st2    == IF TooOld(st1, c, t) THEN [st1 EXCEPT !.Messages[c] = <<>>] ELSE st1
    IN  [store |-> [st2 EXCEPT !.LastAccessed[c] = t], context |-> c]

\* AppendTrim with the limit test off by one.
AppendTrimOffByOne(msgs, m) ==
    LET a == Append(msgs, m)
    IN  IF Len(a) > maxMessages + 1
        THEN SubSeq(a, Len(a) - maxMessages + 1, Len(a))
        ELSE a

\* AppendTrim cutting at the wrong end: it keeps the oldest maxMessages.
AppendTrimKeepOldest(msgs, m) ==
    LET a == Append(msgs, m)
    IN  IF Len(a) > maxMessages
        THEN SubSeq(a, 1, maxMessages)
        ELSE a

\* Store.AddMessage, lines 156-166: append, then keep the last maxMessages.
AppendTrim(msgs, m) ==
    LET a == Append(msgs, m)
    IN  IF Len(a) > maxMessages
        THEN SubSeq(a, Len(a) - maxMessages + 1, Len(a))
        ELSE a

\* The append of AddMessage reaching the context of every thread of the store.
AddMessageAppendEveryThread(st, c, m) ==
    [st EXCEPT !.Messages =
        [k \in CtxIds |->
            IF k = c \/ \E t \in Threads : st.conversations[t] = k
            THEN AppendTrim(st.Messages[k], m)
            ELSE st.Messages[k]]]

\* AddMessage lines 156-166: the append to the context GetOrCreate returned.
AddMessageAppend(st, c, m) == [st EXCEPT !.Messages[c] = AppendTrim(st.Messages[c], m)]

\* GetMessagesResult without the max-age test.
GetMessagesResultNoAgeCheck(st, threadID, t) ==
    LET c == st.conversations[threadID]
    IN  IF c = NoCtx THEN <<>> ELSE st.Messages[c]

\* Store.GetMessages: the value returned.
GetMessagesResult(st, threadID, t) ==
    LET c == st.conversations[threadID]
    IN  IF c = NoCtx THEN <<>>
        ELSE IF TooOld(st, c, t) THEN <<>>
        ELSE st.Messages[c]

\* cleanup removing an entry as soon as its age reaches maxAge.
CleanupSweepAtAge(st, t) ==
    [st EXCEPT !.conversations =
        [th \in Threads |->
            IF st.conversations[th] # NoCtx /\ t - st.LastAccessed[st.conversations[th]] >= maxAge
            THEN NoCtx ELSE st.conversations[th]]]

\* Store.cleanup: the sweep over s.conversations.
CleanupSweep(st, t) ==
    [st EXCEPT !.conversations =
        [th \in Threads |->
            IF st.conversations[th] # NoCtx /\ TooOld(st, st.conversations[th], t)
            THEN NoCtx ELSE st.conversations[th]]]

\* The last n elements of a sequence (all of it when it is shorter).
LastN(seq, n) == [i \in 1 .. (IF Len(seq) < n THEN Len(seq) ELSE n) |->
                     seq[i + (IF Len(seq) < n THEN 0 ELSE Len(seq) - n)]]

\* ------------------------------------------------------------------------
\* sync.RWMutex
\* ------------------------------------------------------------------------
NoOne == "none"
Cleaner == "cleanupRoutine"
FreeMutex == [w |-> NoOne, r |-> {}]
CanLock == mutex.w = NoOne /\ mutex.r = {}
CanRLock == mutex.w = NoOne

Held(ctx) == {ctx[p] : p \in Procs} \ {NoCtx}

\* No GetMessages returned in the last step. messages is what the call returned,
\* shadowMessages what the same call returned on shadow.
NoReturn == [caller |-> NoOne, threadID |-> NoThread, messages |-> <<>>, shadowMessages |-> <<>>]
\* stale records whether GetOrCreate found the entry older than maxAge.
NoArg == [threadID |-> NoThread, role |-> "user", content |-> "hi", stale |-> FALSE]

InitStore ==
    /\ now = 0
    /\ store = EmptyStore
    /\ mutex = FreeMutex
    /\ pc = [p \in Procs |-> "idle"]
    /\ arg = [p \in Procs |-> NoArg]
    /\ context = [p \in Procs |-> NoCtx]
    /\ returned = NoReturn
    /\ cpc = "idle"
    /\ recent = [t \in Threads |-> <<>>]
    /\ nAppended = [t \in Threads |-> 0]
    /\ expired = [t \in Threads |-> FALSE]
    /\ adds = 0
    /\ shadow = EmptyStore
    /\ scontext = [p \in Procs |-> NoCtx]

\* AddMessage line 151 -> GetOrCreate line 127: s.mutex.Lock()
GetOrCreateLock(p, threadID, role, content) ==
    /\ pc[p] = "idle"
    /\ adds < MaxAdds
    /\ CanLock
    /\ mutex' = [mutex EXCEPT !.w = p]
    /\ pc' = [pc EXCEPT ![p] = "GetOrCreate"]
    /\ arg' = [arg EXCEPT ![p] = [threadID |-> threadID, role |-> role, content |-> content,
                                      stale |-> FALSE]]
    /\ adds' = adds + 1
    /\ UNCHANGED <<now, store, context, cpc, recent, nAppended, expired, shadow, scontext>>
    /\ returned' = NoReturn
    /\ UNCHANGED <<indexVars, eventVars, seqVars, broadcastVars, mentionVars, pruneVars>>

\* GetOrCreateBody without the deferred Unlock of line 128.
GetOrCreateBodyNoUnlock(p) ==
    /\ pc[p] = "GetOrCreate"
    /\ LET r == GetOrCreate(store, Held(context), arg[p].threadID, now)
           s == GetOrCreate(shadow, Held(scontext), arg[p].threadID, now)
       IN  /\ store' = r.store
           /\ context' = [context EXCEPT ![p] = r.context]
           /\ shadow' = s.store
           /\ scontext' = [scontext EXCEPT ![p] = s.context]
    /\ arg' = [arg EXCEPT ![p].stale = Stale(store, arg[p].threadID, now)]
    /\ pc' = [pc EXCEPT ![p] = "AddMessage"]
    /\ UNCHANGED <<now, cpc, recent, nAppended, expired, adds, mutex>>
    /\ returned' = NoReturn
    /\ UNCHANGED <<indexVars, eventVars, seqVars, broadcastVars, mentionVars, pruneVars>>

\* GetOrCreate lines 130-146 and the deferred Unlock; AddMessage now holds the context.
GetOrCreateBody(p) ==
    /\ pc[p] = "GetOrCreate"
    /\ LET r == GetOrCreate(store, Held(context), arg[p].threadID, now)
           s == GetOrCreate(shadow, Held(scontext), arg[p].threadID, now)
       IN  /\ store' = r.store
           /\ context' = [context EXCEPT ![p] = r.context]
           /\ shadow' = s.store
           /\ scontext' = [scontext EXCEPT ![p] = s.context]
    /\ arg' = [arg EXCEPT ![p].stale = Stale(store, arg[p].threadID, now)]
    /\ mutex' = FreeMutex
    /\ pc' = [pc EXCEPT ![p] = "AddMessage"]
    /\ UNCHANGED <<now, cpc, recent, nAppended, expired, adds>>
    /\ returned' = NoReturn
    /\ UNCHANGED <<indexVars, eventVars, seqVars, broadcastVars, mentionVars, pruneVars>>

\* AddMessage line 153: s.mutex.Lock()
AddMessageLock(p) ==
    /\ pc[p] = "AddMessage"
    /\ CanLock
    /\ mutex' = [mutex EXCEPT !.w = p]
    /\ pc' = [pc EXCEPT ![p] = "append"]
    /\ UNCHANGED <<now, store, arg, context, cpc, recent, nAppended, expired, adds, shadow, scontext>>
    /\ returned' = NoReturn
    /\ UNCHANGED <<indexVars, eventVars, seqVars, broadcastVars, mentionVars, pruneVars>>

\* AddMessage lines 156-166 and the deferred Unlock; AddMessage returns.
AddMessageBody(p) ==
    /\ pc[p] = "append"
    /\ LET m == Message(arg[p].role, arg[p].content, now)
           ctxs  == [context EXCEPT ![p] = NoCtx]
           sctxs == [scontext EXCEPT ![p] = NoCtx]
       IN  /\ store' = Collect(AddMessageAppend(store, context[p], m), Held(ctxs))
           /\ shadow' = Collect(AddMessageAppend(shadow, scontext[p], m), Held(sctxs))
           /\ context' = ctxs
           /\ scontext' = sctxs
           /\ recent' = [recent EXCEPT ![arg[p].threadID] = LastN(Append(@, m), maxMessages)]
           /\ nAppended' = [nAppended EXCEPT ![arg[p].threadID] = @ + 1]
    /\ mutex' = FreeMutex
    /\ pc' = [pc EXCEPT ![p] = "idle"]
    /\ arg' = [arg EXCEPT ![p] = NoArg]
    /\ UNCHANGED <<now, cpc, expired, adds>>
    /\ returned' = NoReturn
    /\ UNCHANGED <<indexVars, eventVars, seqVars, broadcastVars, mentionVars, pruneVars>>

\* GetMessages line 171: s.mutex.RLock()
GetMessagesRLock(p, threadID) ==
    /\ pc[p] = "idle"
    /\ CanRLock
    /\ mutex' = [mutex EXCEPT !.r = @ \cup {p}]
    /\ pc' = [pc EXCEPT ![p] = "GetMessages"]
    /\ arg' = [arg EXCEPT ![p] = [NoArg EXCEPT !.threadID = threadID]]
    /\ UNCHANGED <<now, store, context, cpc, recent, nAppended, expired, adds, shadow, scontext>>
    /\ returned' = NoReturn
    /\ UNCHANGED <<indexVars, eventVars, seqVars, broadcastVars, mentionVars, pruneVars>>

\* GetMessagesBody refreshing LastAccessed on a read, as GetOrCreate does on a write.
GetMessagesBodyTouch(p) ==
    /\ pc[p] = "GetMessages"
    /\ returned' = [caller |-> p, threadID |-> arg[p].threadID,
                     messages |-> GetMessagesResult(store, arg[p].threadID, now),
                     shadowMessages |-> GetMessagesResult(shadow, arg[p].threadID, now)]
    /\ store' = IF store.conversations[arg[p].threadID] = NoCtx THEN store
                ELSE [store EXCEPT !.LastAccessed[store.conversations[arg[p].threadID]] = now]
    /\ mutex' = [mutex EXCEPT !.r = @ \ {p}]
    /\ pc' = [pc EXCEPT ![p] = "idle"]
    /\ arg' = [arg EXCEPT ![p] = NoArg]
    /\ UNCHANGED <<now, context, cpc, recent, nAppended, expired, adds,
                   shadow, scontext>>
    /\ UNCHANGED <<indexVars, eventVars, seqVars, broadcastVars, mentionVars, pruneVars>>

\* GetMessages lines 174-184 and the deferred RUnlock: the caller has the result.
GetMessagesBody(p) ==
    /\ pc[p] = "GetMessages"
    /\ returned' = [caller |-> p, threadID |-> arg[p].threadID,
                     messages |-> GetMessagesResult(store, arg[p].threadID, now),
                     shadowMessages |-> GetMessagesResult(shadow, arg[p].threadID, now)]
    /\ mutex' = [mutex EXCEPT !.r = @ \ {p}]
    /\ pc' = [pc EXCEPT ![p] = "idle"]
    /\ arg' = [arg EXCEPT ![p] = NoArg]
    /\ UNCHANGED <<now, store, context, cpc, recent, nAppended, expired, adds,
                   shadow, scontext>>
    /\ UNCHANGED <<indexVars, eventVars, seqVars, broadcastVars, mentionVars, pruneVars>>

\* cleanupRoutine: the ticker fired; cleanup line 199: s.mutex.Lock()
CleanupLock ==
    /\ cpc = "idle"
    /\ CanLock
    /\ mutex' = [mutex EXCEPT !.w = Cleaner]
    /\ cpc' = "cleanup"
    /\ UNCHANGED <<now, store, pc, arg, context, recent, nAppended, expired, adds, shadow, scontext>>
    /\ returned' = NoReturn
    /\ UNCHANGED <<indexVars, eventVars, seqVars, broadcastVars, mentionVars, pruneVars>>

\* cleanup lines 202-206 and the deferred Unlock. The shadow store is not swept.
CleanupBody ==
    /\ cpc = "cleanup"
    /\ store' = Collect(CleanupSweep(store, now), Held(context))
    /\ mutex' = FreeMutex
    /\ cpc' = "idle"
    /\ UNCHANGED <<now, pc, arg, context, recent, nAppended, expired, adds, shadow, scontext>>
    /\ returned' = NoReturn
    /\ UNCHANGED <<indexVars, eventVars, seqVars, broadcastVars, mentionVars, pruneVars>>

\* Time passes.
Tick ==
    /\ now < MaxTime
    /\ now' = now + 1
    /\ expired' = [t \in Threads |->
                     \/ expired[t]
                     \/ /\ shadow.conversations[t] # NoCtx
                        /\ TooOld(shadow, shadow.conversations[t], now + 1)]
    /\ UNCHANGED <<store, mutex, pc, arg, context, cpc, recent, nAppended, adds, shadow, scontext>>
    /\ returned' = NoReturn
    /\ UNCHANGED <<indexVars, eventVars, seqVars, broadcastVars, mentionVars, pruneVars>>

NextStore ==
    \/ \E p \in Procs, t \in Threads : \E in \in Inputs(p) : GetOrCreateLock(p, t, in[1], in[2])
    \/ \E p \in Procs : GetOrCreateBody(p)
    \/ \E p \in Procs : AddMessageLock(p)
    \/ \E p \in Procs : AddMessageBody(p)
    \/ \E p \in Procs, t \in Threads : GetMessagesRLock(p, t)
    \/ \E p \in Procs : GetMessagesBody(p)
    \/ CleanupLock
    \/ CleanupBody
    \/ Tick


\* ------------------------------------------------------------------------
\* Text: a string is a sequence of one-character strings; len() is Len.
\* ------------------------------------------------------------------------
LowerLetters == <<"a", "b", "c", "d", "e", "f", "g", "h", "i", "j", "k", "l", "m", "n", "o", "p", "q", "r", "s", "t", "u", "v", "w", "x", "y", "z">>
UpperLetters == <<"A", "B", "C", "D", "E", "F", "G", "H", "I", "J", "K", "L", "M", "N", "O", "P", "Q", "R", "S", "T", "U", "V", "W", "X", "Y", "Z">>
DigitChars == {"0", "1", "2", "3", "4", "5", "6", "7", "8", "9"}

IsLower(c) == \E i \in DOMAIN LowerLetters : LowerLetters[i] = c
IsUpper(c) == \E i \in DOMAIN UpperLetters : UpperLetters[i] = c
\* \w of the regexp package: [0-9A-Za-z_]
IsWordChar(c) == IsLower(c) \/ IsUpper(c) \/ c \in DigitChars \/ c = "_"
\* white space of strings.TrimSpace, strings.Fields and \s
IsSpace(c) == c \in {" ", "\n", "\t", "\r"}

SetMin(S) == CHOOSE x \in S : \A y \in S : x <= y
SetMax(S) == CHOOSE x \in S : \A y \in S : x >= y

\* strings.ToLower
ToLowerChar(c) ==
    IF IsUpper(c)
    THEN LowerLetters[CHOOSE i \in DOMAIN UpperLetters : UpperLetters[i] = c]
    ELSE c
ToLower(text) == [i \in 1 .. Len(text) |-> ToLowerChar(text[i])]

\* strings.TrimSpace
TrimSpace(text) ==
    LET keep == {i \in 1 .. Len(text) : ~IsSpace(text[i])}
    IN  IF keep = {} THEN <<>> ELSE SubSeq(text, SetMin(keep), SetMax(keep))

\* strings.HasPrefix, strings.TrimPrefix, strings.HasSuffix
HasPrefix(text, prefix) ==
    Len(text) >= Len(prefix) /\ SubSeq(text, 1, Len(prefix)) = prefix
TrimPrefix(text, prefix) ==
    IF HasPrefix(text, prefix) THEN SubSeq(text, Len(prefix) + 1, Len(text)) ELSE text
HasSuffix(text, suffix) ==
    Len(text) >= Len(suffix)
        /\ SubSeq(text, Len(text) - Len(suffix) + 1, Len(text)) = suffix

\* strings.Split(text, sep) for a one-character separator
RECURSIVE Split(_, _)
Split(text, sep) ==
    LET at == {i \in 1 .. Len(text) : text[i] = sep}
    IN  IF at = {} THEN <<text>>
        ELSE <<SubSeq(text, 1, SetMin(at) - 1)>>
                 \o Split(SubSeq(text, SetMin(at) + 1, Len(text)), sep)

\* strings.Fields: the maximal runs of non-space characters
RECURSIVE Fields(_)
Fields(text) ==
    LET word == {i \in 1 .. Len(text) : ~IsSpace(text[i])}
    IN  IF word = {} THEN <<>>
        ELSE LET b    == SetMin(word)
                 stop == {i \in b .. Len(text) : IsSpace(text[i])}
                 e    == IF stop = {} THEN Len(text) ELSE SetMin(stop) - 1
             IN  <<SubSeq(text, b, e)>> \o Fields(SubSeq(text, e + 1, Len(text)))

\* DocumentService.extractTitle
Untitled == <<"U", "n", "t", "i", "t", "l", "e", "d">>
TitleMark == <<"#", " ">>
RECURSIVE FirstTitle(_)
FirstTitle(lines) ==
    IF lines = <<>> THEN Untitled
    ELSE IF HasPrefix(TrimSpace(Head(lines)), TitleMark)
         THEN TrimPrefix(TrimSpace(Head(lines)), TitleMark)
         ELSE FirstTitle(Tail(lines))
extractTitle(content) == FirstTitle(Split(content, "\n"))

\* regexp `\n\s*\n\s*\n` replaced by "\n\n", leftmost match first: a match
\* starts at a newline and runs to the last newline of the white space that
\* follows, when that white space holds at least three newlines.
RECURSIVE ReplaceBlankLines(_)
ReplaceBlankLines(text) ==
    IF text = <<>> THEN <<>>
    ELSE LET other == {i \in 1 .. Len(text) : ~IsSpace(text[i])}
             run   == IF other = {} THEN Len(text) ELSE SetMin(other) - 1
             nls   == {i \in 1 .. run : text[i] = "\n"}
         IN  IF text[1] = "\n" /\ Cardinality(nls) >= 3
             THEN <<"\n", "\n">>
                      \o ReplaceBlankLines(SubSeq(text, SetMax(nls) + 1, Len(text)))
             ELSE <<text[1]>> \o ReplaceBlankLines(Tail(text))

\* DocumentService.cleanContent
cleanContent(content) == TrimSpace(ReplaceBlankLines(content))

\* splitBySections without the append of the last section after the loop.
RECURSIVE SectionsLoopDropRest(_, _, _)
SectionsLoopDropRest(lines, sections, currentSection) ==
    IF lines = <<>>
    THEN sections
    ELSE LET line  == Head(lines)
             flush == HasPrefix(TrimSpace(line), <<"#">>) /\ Len(currentSection) > 0
         IN  SectionsLoopDropRest(Tail(lines),
                          IF flush THEN Append(sections, currentSection) ELSE sections,
                          (IF flush THEN <<>> ELSE currentSection) \o line \o <<"\n">>)

\* DocumentService.splitBySections: the loop over the lines, then the rest.
RECURSIVE SectionsLoop(_, _, _)
SectionsLoop(lines, sections, currentSection) ==
    IF lines = <<>>
    THEN IF Len(currentSection) > 0 THEN Append(sections, currentSection) ELSE sections
    ELSE LET line  == Head(lines)
             flush == HasPrefix(TrimSpace(line), <<"#">>) /\ Len(currentSection) > 0
         IN  SectionsLoop(Tail(lines),
                          IF flush THEN Append(sections, currentSection) ELSE sections,
                          (IF flush THEN <<>> ELSE currentSection) \o line \o <<"\n">>)
splitBySections(content) == SectionsLoop(Split(content, "\n"), <<>>, <<>>)

\* splitIntoChunks starting a new chunk at every word.
RECURSIVE ChunksLoopWordByWord(_, _, _, _)
ChunksLoopWordByWord(words, chunkList, currentChunk, chunkSize) ==
    IF words = <<>>
    THEN IF Len(currentChunk) > 0 THEN Append(chunkList, currentChunk) ELSE chunkList
    ELSE LET word  == Head(words)
             flush == Len(currentChunk) > 0
             cur   == IF flush THEN <<>> ELSE currentChunk
         IN  ChunksLoopWordByWord(Tail(words),
                        IF flush THEN Append(chunkList, currentChunk) ELSE chunkList,
                        (IF Len(cur) > 0 THEN cur \o <<" ">> ELSE cur) \o word,
                        chunkSize)

\* DocumentService.splitIntoChunks: the loop over the words, then the rest.
RECURSIVE ChunksLoop(_, _, _, _)
ChunksLoop(words, chunkList, currentChunk, chunkSize) ==
    IF words = <<>>
    THEN IF Len(currentChunk) > 0 THEN Append(chunkList, currentChunk) ELSE chunkList
    ELSE LET word  == Head(words)
             flush == Len(currentChunk) + Len(word) + 1 > chunkSize /\ Len(currentChunk) > 0
             cur   == IF flush THEN <<>> ELSE currentChunk
         IN  ChunksLoop(Tail(words),
                        IF flush THEN Append(chunkList, currentChunk) ELSE chunkList,
                        (IF Len(cur) > 0 THEN cur \o <<" ">> ELSE cur) \o word,
                        chunkSize)
splitIntoChunks(text, chunkSize) ==
    IF Len(text) <= chunkSize THEN <<text>>
    ELSE ChunksLoop(Fields(text), <<>>, <<>>, chunkSize)

\* The stopWords map of extractKeywords.
stopWords == {
    <<"t", "h", "e">>, <<"a", "n", "d">>, <<"f", "o", "r">>,
    <<"a", "r", "e">>, <<"b", "u", "t">>, <<"n", "o", "t">>,
    <<"y", "o", "u">>, <<"a", "l", "l">>, <<"c", "a", "n">>,
    <<"h", "a", "d">>, <<"h", "e", "r">>, <<"w", "a", "s">>,
    <<"o", "n", "e">>, <<"o", "u", "r">>, <<"o", "u", "t">>,
    <<"d", "a", "y">>, <<"g", "e", "t">>, <<"h", "a", "s">>,
    <<"h", "i", "m">>, <<"h", "i", "s">>, <<"h", "o", "w">>,
    <<"i", "t", "s">>, <<"m", "a", "y">>, <<"n", "e", "w">>,
    <<"n", "o", "w">>, <<"o", "l", "d">>, <<"s", "e", "e">>,
    <<"t", "w", "o">>, <<"w", "a", "y">>, <<"w", "h", "o">>,
    <<"t", "h", "i", "s">>, <<"t", "h", "a", "t">>, <<"w", "i", "t", "h">>,
    <<"h", "a", "v", "e">>, <<"f", "r", "o", "m">>, <<"t", "h", "e", "y">>,
    <<"k", "n", "o", "w">>, <<"w", "a", "n", "t">>, <<"b", "e", "e", "n">>,
    <<"g", "o", "o", "d">>, <<"m", "u", "c", "h">>, <<"s", "o", "m", "e">>,
    <<"t", "i", "m", "e">>, <<"v", "e", "r", "y">>, <<"w", "h", "e", "n">>,
    <<"c", "o", "m", "e">>, <<"h", "e", "r", "e">>, <<"j", "u", "s", "t">>,
    <<"l", "i", "k", "e">>, <<"l", "o", "n", "g">>, <<"m", "a", "k", "e">>,
    <<"m", "a", "n", "y">>, <<"o", "v", "e", "r">>, <<"s", "u", "c", "h">>,
    <<"t", "a", "k", "e">>, <<"t", "h", "a", "n">>, <<"t", "h", "e", "m">>,
    <<"w", "e", "l", "l">>, <<"w", "e", "r", "e">>}

\* regexp `\b[a-z]{3,}\b`, FindAllString: the maximal runs of word characters
\* that are lowercase letters only and at least three long.
RECURSIVE FindAllWords(_)
FindAllWords(text) ==
    LET wordAt == {i \in 1 .. Len(text) : IsWordChar(text[i])}
    IN  IF wordAt = {} THEN <<>>
        ELSE LET b    == SetMin(wordAt)
                 stop == {i \in b .. Len(text) : ~IsWordChar(text[i])}
                 e    == IF stop = {} THEN Len(text) ELSE SetMin(stop) - 1
                 run  == SubSeq(text, b, e)
                 rest == FindAllWords(SubSeq(text, e + 1, Len(text)))
             IN  IF Len(run) >= 3 /\ \A i \in 1 .. Len(run) : IsLower(run[i])
                 THEN <<run>> \o rest
                 ELSE rest

InSeq(x, seq) == \E i \in 1 .. Len(seq) : seq[i] = x

\* DocumentService.extractKeywords: the loop over the words found.
\* The loop of extractKeywords with the length test len(word) > 2.
RECURSIVE KeywordsLoopKeepShort(_, _)
KeywordsLoopKeepShort(words, keywordList) ==
    IF words = <<>> THEN keywordList
    ELSE LET word == Head(words)
         IN  KeywordsLoopKeepShort(Tail(words),
                          IF word \notin stopWords /\ ~InSeq(word, keywordList) /\ Len(word) > 2
                          THEN Append(keywordList, word)
                          ELSE keywordList)

\* The loop of extractKeywords without the stopWords test.
RECURSIVE KeywordsLoopKeepStop(_, _)
KeywordsLoopKeepStop(words, keywordList) ==
    IF words = <<>> THEN keywordList
    ELSE LET word == Head(words)
         IN  KeywordsLoopKeepStop(Tail(words),
                          IF ~InSeq(word, keywordList) /\ Len(word) > 3
                          THEN Append(keywordList, word)
                          ELSE keywordList)

\* The loop of extractKeywords without the seen map.
RECURSIVE KeywordsLoopNoSeen(_, _)
KeywordsLoopNoSeen(words, keywordList) ==
    IF words = <<>> THEN keywordList
    ELSE LET word == Head(words)
         IN  KeywordsLoopNoSeen(Tail(words),
                          IF word \notin stopWords /\ Len(word) > 3
                          THEN Append(keywordList, word)
                          ELSE keywordList)

RECURSIVE KeywordsLoop(_, _)
KeywordsLoop(words, keywordList) ==
    IF words = <<>> THEN keywordList
    ELSE LET word == Head(words)
         IN  KeywordsLoop(Tail(words),
                          IF word \notin stopWords /\ ~InSeq(word, keywordList) /\ Len(word) > 3
                          THEN Append(keywordList, word)
                          ELSE keywordList)
extractKeywords(text) == KeywordsLoop(FindAllWords(ToLower(text)), <<>>)

\* ------------------------------------------------------------------------
\* DocumentService (unnamed/part_007)
\* ------------------------------------------------------------------------
\* LoadFromZip(zipPath, chunkSize): the CHUNK_SIZE the service is configured with.
ChunkSize == 12
\* handleRefreshDocs calls served.
MaxLoads == 2

\* The *.zip archives LoadFromZip may find at DOCS_ZIP_PATH: each a sequence of
\* zip entries (name, content, whether readZipFile can read it).
File(name, content, readable) == [Name |-> name, Content |-> content, Readable |-> readable]
CorpusA == <<File(<<"a", ".", "m", "d">>, <<"w", "a", "v", "e", "\n", "#", "w", "a", "v", "e", " ", "d", "o", "c", "s">>, TRUE)>>
CorpusB == <<File(<<"n", ".", "t", "x", "t">>, <<"w", "a", "v", "e">>, TRUE),
             File(<<"B", ".", "M", "D">>, <<"#", " ", "T", "i", "d", "e", "\n", "d", "o", "c", "s", " ", "w", "a", "v", "e", " ", "d", "o", "c", "s", " ", "t", "i", "d", "e">>, TRUE)>>
Corpora == {CorpusA, CorpusB}

\* The messages of /api/chat requests and MAX_CONTEXT_CHUNKS.
Queries == {<<"w", "a", "v", "e">>, <<"h", "o", "w", " ", "d", "o", "c", "s", " ", "w", "a", "v", "e">>, <<"t", "h", "e">>}
MaxChunksChoices == {1, 2}

MdSuffix == <<".", "m", "d">>

\* type Chunk struct { ID, DocPath, Title, Content, Keywords, Score }; the ID
\* "<path>_chunk_<i>" or "<path>_chunk_<i>_<j>" is kept as its parts.
NoScore == [n |-> 0, p |-> 1, total |-> 1]
Chunk(id, doc, content) ==
    [ID |-> id, DocPath |-> doc.Path, Title |-> doc.Title, Content |-> content,
     Keywords |-> extractKeywords(content), Score |-> NoScore]

\* chunkDocument with the split done for one character more than chunkSize.
SectionChunksLooseBound(doc, i, section, chunkSize) ==
    IF Len(section) <= chunkSize
    THEN <<Chunk(<<doc.Path, i>>, doc, section)>>
    ELSE LET subChunks == splitIntoChunks(section, chunkSize + 1)
         IN  [j \in 1 .. Len(subChunks) |-> Chunk(<<doc.Path, i, j - 1>>, doc, subChunks[j])]

\* DocumentService.chunkDocument: the chunks of section i (counted from 0).
SectionChunks(doc, i, section, chunkSize) ==
    IF Len(section) <= chunkSize
    THEN <<Chunk(<<doc.Path, i>>, doc, section)>>
    ELSE LET subChunks == splitIntoChunks(section, chunkSize)
         IN  [j \in 1 .. Len(subChunks) |-> Chunk(<<doc.Path, i, j - 1>>, doc, subChunks[j])]

RECURSIVE ChunkSections(_, _, _, _)
ChunkSections(doc, sections, i, chunkSize) ==
    IF i > Len(sections) THEN <<>>
    ELSE SectionChunks(doc, i - 1, sections[i], chunkSize)
             \o ChunkSections(doc, sections, i + 1, chunkSize)

\* DocumentService.chunkDocument: the chunks appended to ds.chunks.
chunkDocument(doc, chunkSize) ==
    ChunkSections(doc, splitBySections(cleanContent(doc.Content)), 1, chunkSize)

\* LoadFromZip lines 128-133: the Document made of a zip entry.
Document(file) ==
    [Path |-> file.Name, Title |-> extractTitle(file.Content), Content |-> file.Content,
     Metadata |-> Len(file.Content)]

\* The loop body going on after readZipFile failed, with no content.
LoadOneFileKeepsUnread(ds, file, chunkSize) ==
    IF ~HasSuffix(ToLower(file.Name), MdSuffix) THEN ds
    ELSE LET doc == Document(IF file.Readable THEN file ELSE [file EXCEPT !.Content = <<>>])
         IN  [ds EXCEPT !.documents = Append(@, doc),
                        !.chunks = @ \o chunkDocument(doc, chunkSize)]

\* LoadFromZip lines 117-137: one turn of the loop over reader.File.
LoadOneFile(ds, file, chunkSize) ==
    IF ~HasSuffix(ToLower(file.Name), MdSuffix) THEN ds
    ELSE IF ~file.Readable THEN ds
    ELSE [ds EXCEPT !.documents = Append(@, Document(file)),
                    !.chunks = @ \o chunkDocument(Document(file), chunkSize)]

\* DocumentService.buildKeywordIndex: the map keyword -> chunk positions
\* (positions count from 0, as in the code).
RECURSIVE IndexKeywords(_, _, _)
IndexKeywords(index, kws, i) ==
    IF kws = <<>> THEN index
    ELSE LET keyword == Head(kws)
             list    == IF keyword \in DOMAIN index THEN index[keyword] ELSE <<>>
         IN  IndexKeywords([k \in DOMAIN index \cup {keyword} |->
                               IF k = keyword THEN Append(list, i) ELSE index[k]],
                           Tail(kws), i)

RECURSIVE IndexChunks(_, _, _)
IndexChunks(index, chunkList, i) ==
    IF i > Len(chunkList) THEN index
    ELSE IndexChunks(IndexKeywords(index, chunkList[i].Keywords, i - 1), chunkList, i + 1)

EmptyIndex == [k \in {} |-> <<>>]
\* buildKeywordIndex leaving the last chunk out of the index.
buildKeywordIndexSkipLast(chunkList) ==
    IndexChunks(EmptyIndex, SubSeq(chunkList, 1, Len(chunkList) - 1), 1)

buildKeywordIndex(chunkList) == IndexChunks(EmptyIndex, chunkList, 1)

\* NewDocumentService
EmptyService == [documents |-> <<>>, chunks |-> <<>>, keywords |-> EmptyIndex]

\* A whole LoadFromZip of a corpus that opens, run without interruption.
RECURSIVE LoadFiles(_, _, _)
LoadFiles(ds, files, chunkSize) ==
    IF files = <<>> THEN ds
    ELSE LoadFiles(LoadOneFile(ds, Head(files), chunkSize), Tail(files), chunkSize)
Generation(corpus, chunkSize) ==
    LET ds == LoadFiles(EmptyService, corpus, chunkSize)
    IN  [ds EXCEPT !.keywords = buildKeywordIndex(ds.chunks)]

\* ---- scores ----
\* A score is a sum of n weights ln(total / len(posting list)) + 1; it is kept
\* as n, the product p of the posting list lengths, and total:
\*     score = n * (1 + ln total) - ln p.
RECURSIVE Pow(_, _)
Pow(x, k) == IF k = 0 THEN 1 ELSE x * Pow(x, k - 1)

\* chunkScores[chunkIndex] -= weight in place of += weight.
AddWeightSubtracted(score, total, listLen) ==
    [n |-> score.n - 1, p |-> score.p * listLen, total |-> total]

AddWeight(score, total, listLen) ==
    [n |-> score.n + 1, p |-> score.p * listLen, total |-> total]

\* a > b for two scores of one search (same total). For a.n # b.n the test
\* (e * total)^(a.n - b.n) * b.p > a.p is decided with 2.7 < e < 2.8; a pair
\* these bounds do not separate counts as unordered.
Greater(a, b) ==
    LET d == a.n - b.n
    IN  IF d = 0 THEN a.p < b.p
        ELSE IF d > 0 THEN Pow(27 * a.total, d) * b.p >= a.p * Pow(10, d)
        ELSE Pow(28 * a.total, 0 - d) * a.p <= b.p * Pow(10, 0 - d)

\* SearchRelevantChunks lines 311-318: chunkScores after the loops over the
\* query words and their posting lists.
RECURSIVE ScorePosting(_, _, _, _)
ScorePosting(chunkScores, list, total, listLen) ==
    IF list = <<>> THEN chunkScores
    ELSE LET i   == Head(list)
             old == IF i \in DOMAIN chunkScores THEN chunkScores[i] ELSE [NoScore EXCEPT !.total = total]
         IN  ScorePosting([c \in DOMAIN chunkScores \cup {i} |->
                              IF c = i THEN AddWeight(old, total, listLen) ELSE chunkScores[c]],
                          Tail(list), total, listLen)

\* The loop over the query words giving up at a word that is not indexed.
RECURSIVE ScoreWordsAllRequired(_, _, _, _)
ScoreWordsAllRequired(chunkScores, queryWords, index, total) ==
    IF queryWords = <<>> THEN chunkScores
    ELSE LET queryWord == Head(queryWords)
         IN  IF queryWord \in DOMAIN index
             THEN ScoreWordsAllRequired(ScorePosting(chunkScores, index[queryWord], total,
                                                     Len(index[queryWord])),
                                        Tail(queryWords), index, total)
             ELSE [c \in {} |-> NoScore]

RECURSIVE ScoreWords(_, _, _, _)
ScoreWords(chunkScores, queryWords, index, total) ==
    IF queryWords = <<>> THEN chunkScores
    ELSE LET queryWord == Head(queryWords)
         IN  ScoreWords(IF queryWord \in DOMAIN index
                        THEN ScorePosting(chunkScores, index[queryWord], total,
                                          Len(index[queryWord]))
                        ELSE chunkScores,
                        Tail(queryWords), index, total)

NoScores == [c \in {} |-> NoScore]

\* The orders left by a sort whose less function compares with < instead of >.
ArrangementsAscending(S, scores) ==
    {f \in [1 .. Cardinality(S) -> S] :
        /\ \A i, j \in 1 .. Cardinality(S) : i # j => f[i] # f[j]
        /\ \A i, j \in 1 .. Cardinality(S) : i < j => ~Greater(scores[f[i]], scores[f[j]])}

\* The orders in which `for chunkIndex, score := range chunkScores` followed by
\* sort.Slice (not stable) may leave the scored chunks: every arrangement in
\* which no chunk stands before one of greater score.
Arrangements(S, scores) ==
    {f \in [1 .. Cardinality(S) -> S] :
        /\ \A i, j \in 1 .. Cardinality(S) : i # j => f[i] # f[j]
        /\ \A i, j \in 1 .. Cardinality(S) : i < j => ~Greater(scores[f[j]], scores[f[i]])}

Take(seq, k) == SubSeq(seq, 1, IF Len(seq) < k THEN Len(seq) ELSE k)

\* SearchRelevantChunks lines 300-307: the early `return nil`.
ReturnsNil(ds, query) ==
    Len(ds.chunks) = 0 \/ Len(extractKeywords(ToLower(query))) = 0

\* SearchRelevantChunks lines 309-318.
ScoreChunks(ds, query) ==
    ScoreWords(NoScores, extractKeywords(ToLower(query)), ds.keywords, Len(ds.chunks))

Nil == [positions |-> <<>>, result |-> <<>>]

\* The results without `chunk.Score = score`: the chunks keep the score they had.
RankChunksNoScore(chunkList, chunkScores, maxChunks) ==
    LET scored == {c \in DOMAIN chunkScores : c < Len(chunkList)}
    IN  {[positions |-> Take(order, maxChunks),
          result |-> [r \in 1 .. Len(Take(order, maxChunks)) |-> chunkList[order[r] + 1]]] :
            order \in Arrangements(scored, chunkScores)}

\* The results filled up with chunks that no query word scored.
RankChunksAll(chunkList, chunkScores, maxChunks) ==
    LET every  == 0 .. (Len(chunkList) - 1)
        padded == [c \in every |->
                     IF c \in DOMAIN chunkScores THEN chunkScores[c]
                     ELSE [NoScore EXCEPT !.total = Len(chunkList)]]
    IN  {[positions |-> Take(order, maxChunks),
          result |-> [r \in 1 .. Len(Take(order, maxChunks)) |->
                         [chunkList[order[r] + 1] EXCEPT !.Score = padded[order[r]]]]] :
            order \in Arrangements(every, padded)}

\* SearchRelevantChunks lines 320-346: the results it may return, each the chunk
\* positions in result order and the chunks with their Score set.
RankChunks(chunkList, chunkScores, maxChunks) ==
    LET scored == {c \in DOMAIN chunkScores : c < Len(chunkList)}
    IN  {[positions |-> Take(order, maxChunks),
          result |-> [r \in 1 .. Len(Take(order, maxChunks)) |->
                         [chunkList[order[r] + 1] EXCEPT !.Score = chunkScores[order[r]]]]] :
            order \in Arrangements(scored, chunkScores)}

\* The loop of lines 328-334 writing the score into ds.chunks[chunkIndex] itself.
StoredAfterSearchInPlace(chunkList, chunkScores) ==
    [i \in 1 .. Len(chunkList) |->
        IF (i - 1) \in DOMAIN chunkScores
        THEN [chunkList[i] EXCEPT !.Score = chunkScores[i - 1]]
        ELSE chunkList[i]]

\* SearchRelevantChunks lines 328-334: ds.chunks after the loop. `chunk :=
\* ds.chunks[chunkIndex]` copies the Chunk value and `chunk.Score = score`
\* writes to the copy.
StoredAfterSearch(chunkList, chunkScores) == chunkList

\* The service a SearchRelevantChunks call leaves behind.
SearchLeaves(ds, query) ==
    IF ReturnsNil(ds, query) THEN ds
    ELSE [ds EXCEPT !.chunks = StoredAfterSearch(@, ScoreChunks(ds, query))]

\* DocumentService.SearchRelevantChunks run without interruption.
SearchRelevantChunks(ds, query, maxChunks) ==
    IF ReturnsNil(ds, query) THEN {Nil}
    ELSE RankChunks(ds.chunks, ScoreChunks(ds, query), maxChunks)

\* ---- the service ----
\* main's LoadDocuments call and the /api/refresh-docs requests, served one at a time.
Loaders == {"main", "refresh1"}
NotLoading == [pc |-> "idle", corpus |-> <<>>, next |-> 0]
NotSearching == [pc |-> "idle", query |-> <<>>, chunkScores |-> NoScores, index |-> EmptyService]
NoSearch == [done |-> FALSE, query |-> <<>>, maxChunks |-> 0, positions |-> <<>>,
             result |-> <<>>, index |-> EmptyService, chunks |-> <<>>]

InitIndex ==
    /\ docService = EmptyService
    /\ maxContextChunks \in MaxChunksChoices
    /\ serving = FALSE
    /\ loading = [l \in Loaders |-> NotLoading]
    /\ loads = 0
    /\ searching = NotSearching
    /\ found = NoSearch
    /\ prev = NoSearch

\* main calls LoadDocuments once, before the server listens; handleRefreshDocs
\* calls it on every POST /api/refresh-docs.
MayLoad(l) ==
    /\ loading[l].pc = "idle"
    /\ IF l = "main" THEN ~serving ELSE serving /\ loads < MaxLoads
Counted(l) == IF l = "main" THEN loads ELSE loads + 1

\* LoadDocuments lines 364-372 (no archive configured or found) and LoadFromZip
\* lines 107-110 (zip.OpenReader fails): the service is left as it was.
LoadNothing(l) ==
    /\ MayLoad(l)
    /\ loads' = Counted(l)
    /\ serving' = TRUE
    /\ UNCHANGED <<docService, maxContextChunks, loading, searching, found, prev>>
    /\ UNCHANGED <<storeVars, eventVars, seqVars, broadcastVars, mentionVars, pruneVars>>

\* LoadFromZip lines 107-115: the archive opens; documents, chunks and keywords are reset.
LoadOpen(l, corpus) ==
    /\ MayLoad(l)
    /\ loads' = Counted(l)
    /\ docService' = EmptyService
    /\ loading' = [loading EXCEPT ![l] = [pc |-> "files", corpus |-> corpus, next |-> 1]]
    /\ UNCHANGED <<maxContextChunks, serving, searching, found, prev>>
    /\ UNCHANGED <<storeVars, eventVars, seqVars, broadcastVars, mentionVars, pruneVars>>

\* LoadFromZip lines 117-137: one turn of the loop over reader.File.
LoadFile(l) ==
    /\ loading[l].pc = "files"
    /\ loading[l].next <= Len(loading[l].corpus)
    /\ docService' = LoadOneFile(docService, loading[l].corpus[loading[l].next], ChunkSize)
    /\ loading' = [loading EXCEPT ![l].next = @ + 1]
    /\ UNCHANGED <<maxContextChunks, serving, loads, searching, found, prev>>
    /\ UNCHANGED <<storeVars, eventVars, seqVars, broadcastVars, mentionVars, pruneVars>>

\* LoadFromZip lines 139-142: buildKeywordIndex, return nil; main goes on to serve.
LoadBuild(l) ==
    /\ loading[l].pc = "files"
    /\ loading[l].next > Len(loading[l].corpus)
    /\ docService' = [docService EXCEPT !.keywords = buildKeywordIndex(docService.chunks)]
    /\ loading' = [loading EXCEPT ![l] = NotLoading]
    /\ serving' = (serving \/ l = "main")
    /\ UNCHANGED <<maxContextChunks, loads, searching, found, prev>>
    /\ UNCHANGED <<storeVars, eventVars, seqVars, broadcastVars, mentionVars, pruneVars>>

\* handleChat line 487 -> SearchRelevantChunks lines 300-318: return nil, or
\* chunkScores is computed from ds.keywords and len(ds.chunks).
SearchScore(query) ==
    /\ serving
    /\ searching.pc = "idle"
    /\ IF ReturnsNil(docService, query)
       THEN /\ found' = [done |-> TRUE, query |-> query, maxChunks |-> maxContextChunks,
                         positions |-> <<>>, result |-> <<>>,
                         index |-> docService, chunks |-> docService.chunks]
            /\ prev' = found
            /\ UNCHANGED searching
       ELSE /\ searching' = [pc |-> "collect", query |-> query,
                             chunkScores |-> ScoreChunks(docService, query),
                             index |-> docService]
            /\ UNCHANGED <<found, prev>>
    /\ UNCHANGED <<docService, maxContextChunks, serving, loading, loads>>
    /\ UNCHANGED <<storeVars, eventVars, seqVars, broadcastVars, mentionVars, pruneVars>>

\* SearchRelevantChunks lines 320-346: the scored chunks are read from ds.chunks,
\* sorted and cut to maxChunks.
SearchCollect ==
    /\ searching.pc = "collect"
    /\ \E r \in RankChunks(docService.chunks, searching.chunkScores, maxContextChunks) :
          found' = [done |-> TRUE, query |-> searching.query, maxChunks |-> maxContextChunks,
                    positions |-> r.positions, result |-> r.result,
                    index |-> searching.index, chunks |-> docService.chunks]
    /\ prev' = found
    /\ searching' = NotSearching
    /\ UNCHANGED <<docService, maxContextChunks, serving, loading, loads>>
    /\ UNCHANGED <<storeVars, eventVars, seqVars, broadcastVars, mentionVars, pruneVars>>

NextIndex ==
    \/ \E l \in Loaders : LoadNothing(l)
    \/ \E l \in Loaders, corpus \in Corpora : LoadOpen(l, corpus)
    \/ \E l \in Loaders : LoadFile(l)
    \/ \E l \in Loaders : LoadBuild(l)
    \/ \E query \in Queries : SearchScore(query)
    \/ SearchCollect

\* ------------------------------------------------------------------------
\* DocumentService used by one caller at a time: a corpus is ingested, a
\* query is searched, the same corpus is ingested again and the same query
\* searched again.
\* ------------------------------------------------------------------------
CorpusRefund == <<File(<<"r", "e", "f", "u", "n", "d", ".", "m", "d">>, <<"r", "e", "f", "u", "n", "d", " ", "p", "o", "l", "i", "c", "y">>, TRUE),
                  File(<<"l", "o", "g", "i", "n", ".", "m", "d">>, <<"l", "o", "g", "i", "n", " ", "t", "r", "o", "u", "b", "l", "e", "s", "h", "o", "o", "t", "i", "n", "g">>, TRUE)>>
CorpusEmpty == <<>>
CorpusShort == <<File(<<"f", "a", "q", ".", "m", "d">>, <<"a", "p", "i", " ", "w", "i", "t", "h", " ", "t", "i", "p", "s">>, TRUE)>>
\* An archive whose second entry cannot be read (readZipFile fails).
CorpusPartial == <<File(<<"a", ".", "m", "d">>, <<"w", "a", "v", "e", " ", "d", "o", "c", "s">>, TRUE),
                   File(<<"b", "a", "d", ".", "m", "d">>, <<"t", "i", "d", "e", " ", "w", "a", "v", "e">>, FALSE),
                   File(<<"c", ".", "m", "d">>, <<"d", "o", "c", "s", " ", "t", "i", "d", "e">>, TRUE)>>
\* A chunk that holds a word twice and a word with a digit; a document with a
\* stop word, blank lines and a tab.
CorpusRepeat == <<File(<<"r", ".", "m", "d">>, <<"T", "i", "d", "e", " ", "t", "i", "d", "e", " ", "v", "2">>, TRUE),
                  File(<<"s", ".", "m", "d">>, <<"w", "i", "t", "h", "\n", " ", "\n", "\n", "\t", "t", "i", "d", "e", "\n">>, TRUE)>>
SeqCorpora == Corpora \cup {CorpusRefund, CorpusEmpty, CorpusShort, CorpusPartial, CorpusRepeat}
RefundQuery == <<"h", "o", "w", " ", "d", "o", " ", "r", "e", "f", "u", "n", "d", "s", " ", "w", "o", "r", "k">>
SeqQueries == Queries \cup {RefundQuery, <<>>, <<"h", "o", "w", " ", "a", "r", "e", " ", "y", "o", "u">>, <<"d", "o", "c", "s", " ", "t", "i", "d", "e">>,
                           <<"a", "p", "i">>, <<"w", "i", "t", "h">>}
SeqMaxChunks == {0, 1, 2, 3}
MaxIngests == 2

\* LoadFromZip lines 113-115: ds.documents[:0], ds.chunks[:0], a new map.
ResetService(ds) ==
    [documents |-> SubSeq(ds.documents, 1, 0), chunks |-> SubSeq(ds.chunks, 1, 0),
     keywords |-> EmptyIndex]

\* DocumentService.LoadFromZip on an archive that opens, run without interruption.
LoadFromZip(ds, corpus, chunkSize) ==
    LET loaded == LoadFiles(ResetService(ds), corpus, chunkSize)
    IN  [loaded EXCEPT !.keywords = buildKeywordIndex(loaded.chunks)]

InitSeq ==
    /\ input \in [corpus : SeqCorpora, query : SeqQueries, maxChunks : SeqMaxChunks]
    /\ service = EmptyService
    /\ phase = "start"
    /\ indexed = <<>>
    /\ results = <<>>

\* LoadFromZip resetting the service before zip.OpenReader is tried.
LoadFromZipCallResetFirst(ds, opens, corpus, chunkSize) ==
    IF ~opens THEN [service |-> ResetService(ds), err |-> TRUE]
    ELSE [service |-> LoadFromZip(ds, corpus, chunkSize), err |-> FALSE]

\* DocumentService.LoadFromZip lines 107-110 and 113-142: the service it
\* leaves and whether it returns an error. opens: zip.OpenReader succeeds.
LoadFromZipCall(ds, opens, corpus, chunkSize) ==
    IF ~opens THEN [service |-> ds, err |-> TRUE]
    ELSE [service |-> LoadFromZip(ds, corpus, chunkSize), err |-> FALSE]

\* LoadFromZip(zipPath, chunkSize) returns, nil or an error; the caller
\* searches after each call.
SeqIngest(opens) ==
    LET outcome == LoadFromZipCall(service, opens, input.corpus, ChunkSize)
    IN  /\ phase \in {"start", "searched"}
        /\ Len(results) < MaxIngests
        /\ service' = outcome.service
        /\ indexed' = IF outcome.err THEN indexed ELSE Append(indexed, service')
        /\ phase' = IF outcome.err THEN "failed" ELSE "ingested"
        /\ UNCHANGED <<input, results>>
        /\ UNCHANGED <<storeVars, indexVars, eventVars, broadcastVars, mentionVars, pruneVars>>

\* SearchRelevantChunks(query, maxChunks) returns.
SeqSearch ==
    /\ phase \in {"ingested", "failed"}
    /\ \E r \in SearchRelevantChunks(service, input.query, input.maxChunks) :
          results' = Append(results, r)
    /\ service' = SearchLeaves(service, input.query)
    /\ phase' = "searched"
    /\ UNCHANGED <<input, indexed>>
    /\ UNCHANGED <<storeVars, indexVars, eventVars, broadcastVars, mentionVars, pruneVars>>

NextSeq ==
    \/ \E opens \in BOOLEAN : SeqIngest(opens)
    \/ SeqSearch

\* ------------------------------------------------------------------------
\* Events listener: Handler.ProcessEvent (slack-events-listener-svc
\* internal/api/handler.go) and Handler.handleSlackEvents (unnamed/part_003)
\* ------------------------------------------------------------------------
\* POST /slack/events requests received.
MaxDeliveries == 3

Listeners == {"ProcessEvent", "handleSlackEvents"}
Conns == {"d1", "d2"}
EventIDs == {"Ev1", "Ev2"}

AtWavie == <<"@", "w", "a", "v", "i", "e">>
Contains(text, sub) ==
    \E i \in 1 .. (Len(text) - Len(sub) + 1) : SubSeq(text, i, i + Len(sub) - 1) = sub

\* slack.EventRequest
NoEvent == [Type |-> "", Challenge |-> "", EventID |-> "",
            Event |-> [Type |-> "", Text |-> <<>>, ThreadTS |-> "", BotID |-> FALSE]]
Verification == [NoEvent EXCEPT !.Type = "url_verification", !.Challenge = "challenge"]
Mention(id) == [NoEvent EXCEPT !.Type = "event_callback", !.EventID = id,
                               !.Event.Type = "app_mention", !.Event.Text = AtWavie]
Payloads == {Verification} \cup {Mention(id) : id \in EventIDs}

\* r.Body is a stream: io.ReadAll returns what is left of it and leaves nothing.
Body(payload) == <<payload>>
ReadAll(stream) == [data |-> stream, rest |-> <<>>]
\* json.Unmarshal(body, &eventReq) fails on an empty body.
Unmarshal(data) ==
    IF data = <<>> THEN [ok |-> FALSE, eventReq |-> NoEvent]
    ELSE [ok |-> TRUE, eventReq |-> data[1]]

NoRequest == [pc |-> "idle", listener |-> "none", eventReq |-> NoEvent, status |-> 0,
              written |-> ""]
Respond(l, status, written) ==
    [pc |-> "idle", listener |-> l, eventReq |-> NoEvent, status |-> status,
     written |-> written]
Dedup(l, eventReq) ==
    [pc |-> "isEventProcessed", listener |-> l, eventReq |-> eventReq, status |-> 0,
     written |-> ""]

\* part_003 Handler.handleSlackEvents lines 430-463, up to the isEventProcessed call.
\* signed: verifySlackSignature(body, timestamp, signature) accepts the request.
HandleSlackEventsEntry(stream, signed) ==
    LET body   == ReadAll(stream).data
        parsed == Unmarshal(body)
        e      == parsed.eventReq
    IN  IF ~signed THEN Respond("handleSlackEvents", 401, "")
        ELSE IF ~parsed.ok THEN Respond("handleSlackEvents", 400, "")
        ELSE IF e.Type = "url_verification"
             THEN Respond("handleSlackEvents", 200, e.Challenge)
        ELSE IF /\ e.Type = "event_callback"
                /\ \/ e.Event.Type = "app_mention"
                   \/ e.Event.Type = "message" /\ e.Event.ThreadTS # "" /\ ~e.Event.BotID
             THEN Dedup("handleSlackEvents", e)
        ELSE Respond("handleSlackEvents", 200, "")

\* handler.go Handler.ProcessEvent lines 110-140, up to the isEventProcessed call:
\* verifySlackSignature(r) reads r.Body (line 80), then line 118 reads it again.
ProcessEventEntry(stream, signed) ==
    LET verified == ReadAll(stream)
        body     == ReadAll(verified.rest).data
        parsed   == Unmarshal(body)
        e        == parsed.eventReq
    IN  IF ~signed THEN Respond("ProcessEvent", 401, "")
        ELSE IF ~parsed.ok THEN Respond("ProcessEvent", 400, "")
        ELSE IF e.Type = "url_verification" THEN Respond("ProcessEvent", 200, e.Challenge)
        ELSE Dedup("ProcessEvent", e)

InitEvents ==
    /\ processedEvents = [l \in Listeners |-> {}]
    /\ request = [d \in Conns |-> NoRequest]
    /\ goroutines = [l \in Listeners |-> [id \in EventIDs |-> 0]]
    /\ handled = [l \in Listeners |-> [id \in EventIDs |-> 0]]
    /\ delivered = 0

\* A request arrives and is served up to its first access to processedEvents.
Receive(d, l, payload, signed) ==
    /\ request[d].pc = "idle"
    /\ delivered < MaxDeliveries
    /\ delivered' = delivered + 1
    /\ request' = [request EXCEPT ![d] =
                      IF l = "ProcessEvent" THEN ProcessEventEntry(Body(payload), signed)
                      ELSE HandleSlackEventsEntry(Body(payload), signed)]
    /\ UNCHANGED <<processedEvents, goroutines, handled>>
    /\ UNCHANGED <<storeVars, indexVars, seqVars, broadcastVars, mentionVars, pruneVars>>

\* isEventProcessed under RLock (handler.go line 141, part_003 line 465). A new
\* event goes on to markEventProcessed in handleSlackEvents, and to the
\* goroutine of lines 148-161 and the 200 of line 164 in ProcessEvent.
IsEventProcessed(d) ==
    LET l  == request[d].listener
        id == request[d].eventReq.EventID
    IN  /\ request[d].pc = "isEventProcessed"
        /\ IF id \in processedEvents[l]
           THEN /\ request' = [request EXCEPT ![d] = Respond(l, 200, "")]
                /\ UNCHANGED goroutines
           ELSE IF l = "handleSlackEvents"
           THEN /\ request' = [request EXCEPT ![d].pc = "markEventProcessed"]
                /\ UNCHANGED goroutines
           ELSE /\ request' = [request EXCEPT ![d] = Respond(l, 200, "")]
                /\ goroutines' = [goroutines EXCEPT ![l][id] = @ + 1]
        /\ UNCHANGED <<processedEvents, handled, delivered>>
        /\ UNCHANGED <<storeVars, indexVars, seqVars, broadcastVars, mentionVars, pruneVars>>

\* part_003 lines 471-483: markEventProcessed under Lock, then
\* `go h.processWavieMessage(eventReq)` for a mention or a thread reply, then 200.
MarkEventProcessed(d) ==
    LET l  == request[d].listener
        e  == request[d].eventReq
        isMention     == Contains(e.Event.Text, AtWavie)
        isThreadReply == e.Event.ThreadTS # ""
    IN  /\ request[d].pc = "markEventProcessed"
        /\ processedEvents' = [processedEvents EXCEPT ![l] = @ \cup {e.EventID}]
        /\ goroutines' = IF isMention \/ isThreadReply
                         THEN [goroutines EXCEPT ![l][e.EventID] = @ + 1]
                         ELSE goroutines
        /\ request' = [request EXCEPT ![d] = Respond(l, 200, "")]
        /\ UNCHANGED <<handled, delivered>>
        /\ UNCHANGED <<storeVars, indexVars, seqVars, broadcastVars, mentionVars, pruneVars>>

\* A spawned goroutine runs: processWavieMessage (part_003 line 478), or the
\* handler switch of handler.go lines 149-159 followed by markEventProcessed
\* (line 160).
RunGoroutine(l, id) ==
    /\ goroutines[l][id] > 0
    /\ goroutines' = [goroutines EXCEPT ![l][id] = @ - 1]
    /\ handled' = [handled EXCEPT ![l][id] = @ + 1]
    /\ processedEvents' = IF l = "ProcessEvent"
                          THEN [processedEvents EXCEPT ![l] = @ \cup {id}]
                          ELSE processedEvents
    /\ UNCHANGED <<request, delivered>>
    /\ UNCHANGED <<storeVars, indexVars, seqVars, broadcastVars, mentionVars, pruneVars>>

NextEvents ==
    \/ \E d \in Conns, l \in Listeners, payload \in Payloads, signed \in BOOLEAN :
          Receive(d, l, payload, signed)
    \/ \E d \in Conns : IsEventProcessed(d)
    \/ \E d \in Conns : MarkEventProcessed(d)
    \/ \E l \in Listeners, id \in EventIDs : RunGoroutine(l, id)

\* ------------------------------------------------------------------------
\* Broadcast service: api.Handler (part_002: /api/broadcast, /api/feedback)
\* and BroadcastService (part_005: /api/broadcast). Each keeps the
\* correlation ids it has seen in processedMessages under an RWMutex.
\* ------------------------------------------------------------------------
MaxRequests == 3
\* markMessageProcessed of BroadcastService: above 1000 ids, 500 are kept.
PruneAbove == 1000
PruneKeep == 500

Broadcasters == {"Handler", "BroadcastService"}
Routes == {"/api/broadcast", "/api/feedback"}
CorrelationIDs == {"c1", "c2"}
Methods == {"POST", "GET"}

\* BroadcastRequest / FeedbackRequest: the fields the handlers test.
NoBroadcastRequest == [CorrelationID |-> "", User |-> "", Channel |-> ""]
BroadcastRequests == [CorrelationID : CorrelationIDs \cup {""}, User : {"", "U1"}, Channel : {"C1"}]
\* A request body: the JSON of a request, or bytes that are not JSON.
BroadcastBodies == {<<>>} \cup {<<req>> : req \in BroadcastRequests}
\* json.NewDecoder(r.Body).Decode(&req)
Decode(body) ==
    IF body = <<>> THEN [ok |-> FALSE, req |-> NoBroadcastRequest]
    ELSE [ok |-> TRUE, req |-> body[1]]

NoCall == [pc |-> "idle", broadcaster |-> "none", req |-> NoBroadcastRequest, status |-> 0]
Answer(b, status) == [pc |-> "idle", broadcaster |-> b, req |-> NoBroadcastRequest, status |-> status]
Accepted(b, req) == [pc |-> "isMessageProcessed", broadcaster |-> b, req |-> req, status |-> 0]

\* part_002 RegisterRoutes and handleBroadcast lines 101-112 / handleFeedback
\* lines 55-66, up to the isMessageProcessed call. The mux serves POST only.
HandlerEntry(method, body) ==
    LET decoded == Decode(body)
    IN  IF method # "POST" THEN Answer("Handler", 405)
        ELSE IF ~decoded.ok THEN Answer("Handler", 400)
        ELSE IF decoded.req.CorrelationID = "" THEN Answer("Handler", 400)
        ELSE Accepted("Handler", decoded.req)

\* part_005 BroadcastService.handleBroadcast lines 284-298.
BroadcastServiceEntry(method, body) ==
    LET decoded == Decode(body)
    IN  IF method # "POST" THEN Answer("BroadcastService", 405)
        ELSE IF ~decoded.ok THEN Answer("BroadcastService", 400)
        ELSE IF \/ decoded.req.CorrelationID = ""
                \/ decoded.req.User = ""
                \/ decoded.req.Channel = ""
             THEN Answer("BroadcastService", 400)
        ELSE Accepted("BroadcastService", decoded.req)

InitBroadcast ==
    /\ processedMessages = [b \in Broadcasters |-> {}]
    /\ call = [d \in Conns |-> NoCall]
    /\ posted = [b \in Broadcasters |-> [id \in CorrelationIDs |-> 0]]
    /\ requests = 0

\* A request arrives at a route of a broadcaster and is served up to its first
\* access to processedMessages. BroadcastService has no /api/feedback route.
BroadcastReceive(d, b, route, method, body) ==
    /\ call[d].pc = "idle"
    /\ requests < MaxRequests
    /\ b = "BroadcastService" => route = "/api/broadcast"
    /\ requests' = requests + 1
    /\ call' = [call EXCEPT ![d] = IF b = "Handler" THEN HandlerEntry(method, body)
                                   ELSE BroadcastServiceEntry(method, body)]
    /\ UNCHANGED <<processedMessages, posted>>
    /\ UNCHANGED <<storeVars, indexVars, eventVars, seqVars, mentionVars, pruneVars>>

\* isMessageProcessed under RLock (part_002 lines 68, 114; part_005 line 300):
\* a seen id is answered 200 without a post.
IsMessageProcessed(d) ==
    LET b == call[d].broadcaster
    IN  /\ call[d].pc = "isMessageProcessed"
        /\ call' = [call EXCEPT ![d] =
                       IF call[d].req.CorrelationID \in processedMessages[b]
                       THEN Answer(b, 200)
                       ELSE [call[d] EXCEPT !.pc = "markMessageProcessed"]]
        /\ UNCHANGED <<processedMessages, posted, requests>>
        /\ UNCHANGED <<storeVars, indexVars, eventVars, seqVars, mentionVars, pruneVars>>

\* markMessageProcessed under Lock (part_002 lines 48-52; part_005 lines
\* 164-180, where a map of more than 1000 ids is cut to 500 of them, chosen
\* by map iteration order).
MarkMessageProcessed(d) ==
    LET b      == call[d].broadcaster
        marked == processedMessages[b] \cup {call[d].req.CorrelationID}
    IN  /\ call[d].pc = "markMessageProcessed"
        /\ IF b = "BroadcastService" /\ Cardinality(marked) > PruneAbove
           THEN \E newMap \in SUBSET marked :
                   /\ Cardinality(newMap) = PruneKeep
                   /\ processedMessages' = [processedMessages EXCEPT ![b] = newMap]
           ELSE processedMessages' = [processedMessages EXCEPT ![b] = marked]
        /\ call' = [call EXCEPT ![d].pc = "post"]
        /\ UNCHANGED <<posted, requests>>
        /\ UNCHANGED <<storeVars, indexVars, eventVars, seqVars, mentionVars, pruneVars>>

\* PostBroadcastMessage / PostFeedbackMessage (part_002 lines 82-87, 128-133)
\* and sendSlackMessage (part_005 lines 312-317): the message reaches the
\* monitoring channel (ok) or the call fails and the request is answered 500.
PostMessage(d, ok) ==
    LET b == call[d].broadcaster
    IN  /\ call[d].pc = "post"
        /\ posted' = IF ok THEN [posted EXCEPT ![b][call[d].req.CorrelationID] = @ + 1]
                     ELSE posted
        /\ call' = [call EXCEPT ![d] = Answer(b, IF ok THEN 200 ELSE 500)]
        /\ UNCHANGED <<processedMessages, requests>>
        /\ UNCHANGED <<storeVars, indexVars, eventVars, seqVars, mentionVars, pruneVars>>

NextBroadcast ==
    \/ \E d \in Conns, b \in Broadcasters, route \in Routes, method \in Methods,
          body \in BroadcastBodies : BroadcastReceive(d, b, route, method, body)
    \/ \E d \in Conns : IsMessageProcessed(d)
    \/ \E d \in Conns : MarkMessageProcessed(d)
    \/ \E d \in Conns, ok \in BOOLEAN : PostMessage(d, ok)

\* ------------------------------------------------------------------------
\* Handling of a mention: Handler.handleAppMention (handler.go) with its
\* conversation.Store, and ChatCompletionWithHistory of the proxy.
\* ------------------------------------------------------------------------
MaxTurns == 3
Mentioners == {"g1", "g2"}

\* The text of the n-th mention and of the answer to it.
UserText(n) == <<"user", n>>
AssistantText(n) == <<"assistant", n>>

\* Store.AddMessage as one call: GetOrCreate, then the append and the trim.
AddMessageCall(st, threadID, role, content, t) ==
    LET got == GetOrCreate(st, {}, threadID, t)
    IN  Collect(AddMessageAppend(got.store, got.context, Message(role, content, t)), {})

\* GPTRequest.ConversationHistory: the role and content of each stored message.
ConversationHistory(msgs) ==
    [i \in 1 .. Len(msgs) |-> [Role |-> msgs[i].Role, Content |-> msgs[i].Content]]

SystemMessage == [Role |-> "system", Content |-> "You are Wavie"]
\* Client.ChatCompletionWithHistory: the messages sent to the model.
ChatCompletionWithHistory(userMessage, history) ==
    <<SystemMessage>> \o history \o <<[Role |-> "user", Content |-> userMessage]>>

NoMention == [pc |-> "idle", threadID |-> NoThread, turn |-> 0,
              history |-> <<>>, prompt |-> <<>>]

InitMention ==
    /\ conversationStore = EmptyStore
    /\ mention = [g \in Mentioners |-> NoMention]
    /\ turns = 0
    /\ clock = 0

\* handleAppMention line 295: the user message is added to the store.
MentionAddUser(g, threadID) ==
    /\ mention[g].pc = "idle"
    /\ turns < MaxTurns
    /\ turns' = turns + 1
    /\ conversationStore' =
          AddMessageCall(conversationStore, threadID, "user", UserText(turns + 1), clock)
    /\ mention' = [mention EXCEPT ![g] =
                      [NoMention EXCEPT !.pc = "GetMessages", !.threadID = threadID,
                                        !.turn = turns + 1]]
    /\ UNCHANGED clock
    /\ UNCHANGED <<storeVars, indexVars, eventVars, seqVars, broadcastVars, pruneVars>>

\* handleAppMention line 298: the history is read from the store.
MentionGetMessages(g) ==
    /\ mention[g].pc = "GetMessages"
    /\ mention' = [mention EXCEPT
                      ![g].history = ConversationHistory(
                          GetMessagesResult(conversationStore, mention[g].threadID, clock)),
                      ![g].pc = "callGPTService"]
    /\ UNCHANGED <<conversationStore, turns, clock>>
    /\ UNCHANGED <<storeVars, indexVars, eventVars, seqVars, broadcastVars, pruneVars>>

\* handleAppMention lines 300-321: callGPTService, whose request reaches
\* ChatCompletionWithHistory (part_006 line 84); on an error the handler returns.
MentionCallGPT(g, ok) ==
    /\ mention[g].pc = "callGPTService"
    /\ mention' = [mention EXCEPT
                      ![g].prompt = ChatCompletionWithHistory(UserText(mention[g].turn),
                                                              mention[g].history),
                      ![g].pc = IF ok THEN "AddMessage" ELSE "idle"]
    /\ UNCHANGED <<conversationStore, turns, clock>>
    /\ UNCHANGED <<storeVars, indexVars, eventVars, seqVars, broadcastVars, pruneVars>>

\* handleAppMention line 324: the answer is added to the store.
MentionAddAssistant(g) ==
    /\ mention[g].pc = "AddMessage"
    /\ conversationStore' =
          AddMessageCall(conversationStore, mention[g].threadID, "assistant",
                         AssistantText(mention[g].turn), clock)
    /\ mention' = [mention EXCEPT ![g].pc = "idle"]
    /\ UNCHANGED <<turns, clock>>
    /\ UNCHANGED <<storeVars, indexVars, eventVars, seqVars, broadcastVars, pruneVars>>

\* Time passes.
MentionTick ==
    /\ clock < MaxTime
    /\ clock' = clock + 1
    /\ UNCHANGED <<conversationStore, mention, turns>>
    /\ UNCHANGED <<storeVars, indexVars, eventVars, seqVars, broadcastVars, pruneVars>>

NextMention ==
    \/ \E g \in Mentioners, threadID \in Threads : MentionAddUser(g, threadID)
    \/ \E g \in Mentioners : MentionGetMessages(g)
    \/ \E g \in Mentioners, ok \in BOOLEAN : MentionCallGPT(g, ok)
    \/ \E g \in Mentioners : MentionAddAssistant(g)
    \/ MentionTick

\* ------------------------------------------------------------------------
\* The size-capped maps of seen identifiers: SlackEventsService.processedEvents
\* (part_003) and BroadcastService.processedMessages (part_005). A map is
\* kept as the identifiers that are followed and the number of other keys.
\* ------------------------------------------------------------------------
MaxMarks == 3
CappedMaps == {"SlackEventsService", "BroadcastService"}
FollowedIDs == {"id1", "id2"}
NoID == "none"

EmptyMap == [others |-> 0, followed |-> {}]
\* A service that has marked n identifiers no request asks about again.
MapOfOthers(n) == [others |-> n, followed |-> {}]
MapSizes == {0, PruneAbove - 1, PruneAbove}
MapLen(m) == m.others + Cardinality(m.followed)

\* markEventProcessed / markMessageProcessed after the insertion: a map of more
\* than 1000 keys is replaced by one of 500 of its keys, the first 500 of the
\* map iteration, whose order Go does not fix.
Pruned(m) ==
    IF MapLen(m) > PruneAbove
    THEN {[others |-> PruneKeep - Cardinality(k), followed |-> k] :
             k \in {k \in SUBSET m.followed :
                       /\ Cardinality(k) <= PruneKeep
                       /\ PruneKeep - Cardinality(k) <= m.others}}
    ELSE {m}

InitPrune ==
    /\ seen \in [CappedMaps -> {MapOfOthers(n) : n \in MapSizes}]
    /\ lastMarked = [s \in CappedMaps |-> NoID]
    /\ asked = [service |-> "none", id |-> NoID, answer |-> FALSE]
    /\ marks = 0

\* The maps as constructed: NewSlackEventsService, NewBroadcastService.
NoPrune ==
    /\ seen = [s \in CappedMaps |-> EmptyMap]
    /\ lastMarked = [s \in CappedMaps |-> NoID]
    /\ asked = [service |-> "none", id |-> NoID, answer |-> FALSE]
    /\ marks = 0

\* markEventProcessed(id) / markMessageProcessed(id) for a followed identifier.
MarkProcessed(s, id) ==
    /\ marks < MaxMarks
    /\ marks' = marks + 1
    /\ \E m \in Pruned([seen[s] EXCEPT !.followed = @ \cup {id}]) :
          seen' = [seen EXCEPT ![s] = m]
    /\ lastMarked' = [lastMarked EXCEPT ![s] = id]
    /\ UNCHANGED asked
    /\ UNCHANGED <<storeVars, indexVars, eventVars, seqVars, broadcastVars, mentionVars>>

\* The same call for an identifier that is new to the map and not followed.
MarkOther(s) ==
    /\ marks < MaxMarks
    /\ marks' = marks + 1
    /\ \E m \in Pruned([seen[s] EXCEPT !.others = @ + 1]) :
          seen' = [seen EXCEPT ![s] = m]
    /\ lastMarked' = [lastMarked EXCEPT ![s] = NoID]
    /\ UNCHANGED asked
    /\ UNCHANGED <<storeVars, indexVars, eventVars, seqVars, broadcastVars, mentionVars>>

\* isEventProcessed(id) / isMessageProcessed(id)
IsProcessed(s, id) ==
    /\ asked' = [service |-> s, id |-> id, answer |-> id \in seen[s].followed]
    /\ UNCHANGED <<seen, lastMarked, marks>>
    /\ UNCHANGED <<storeVars, indexVars, eventVars, seqVars, broadcastVars, mentionVars>>

NextPrune ==
    \/ \E s \in CappedMaps, id \in FollowedIDs : MarkProcessed(s, id)
    \/ \E s \in CappedMaps : MarkOther(s)
    \/ \E s \in CappedMaps, id \in FollowedIDs : IsProcessed(s, id)

\* ------------------------------------------------------------------------
\* Specifications: each service runs alone, the others stay as constructed.
\* ------------------------------------------------------------------------
\* A service that is not running has no run of its own.
NoSeq ==
    /\ input = [corpus |-> CorpusEmpty, query |-> <<>>, maxChunks |-> 0]
    /\ service = EmptyService
    /\ phase = "start"
    /\ indexed = <<>>
    /\ results = <<>>

Init == InitStore /\ InitIndex /\ InitEvents /\ NoSeq /\ InitBroadcast /\ InitMention /\ NoPrune
\* The proxy's configuration does not matter to the other services.
InitOneConfig == Init /\ maxContextChunks = 1
InitSeqOnly ==
    InitStore /\ InitIndex /\ InitEvents /\ maxContextChunks = 1 /\ InitSeq /\ InitBroadcast
        /\ InitMention /\ NoPrune

SpecStore == InitOneConfig /\ [][NextStore]_vars
SpecIndex == Init /\ [][NextIndex]_vars
SpecEvents == InitOneConfig /\ [][NextEvents]_vars
SpecSeq == InitSeqOnly /\ [][NextSeq]_vars
SpecBroadcast == InitOneConfig /\ [][NextBroadcast]_vars
\* The store under the scheduling Go gives it. A goroutine that holds the lock
\* keeps running until its deferred Unlock (weak fairness of the bodies); a
\* goroutine waiting in Lock gets the lock in the end, however often others
\* take it in between, because sync.RWMutex hands the lock to a waiting writer
\* and holds new readers back behind it (strong fairness of the acquisition).
StoreFairness ==
    /\ \A p \in Procs : WF_vars(GetOrCreateBody(p))
    /\ \A p \in Procs : SF_vars(AddMessageLock(p))
    /\ \A p \in Procs : WF_vars(AddMessageBody(p))
    /\ \A p \in Procs : WF_vars(GetMessagesBody(p))
    /\ WF_vars(CleanupBody)
\* The calls contend for the one lock of the store whatever thread they name:
\* the fair runs take every call on the same thread.
NextStoreOneThread ==
    \/ \E p \in Procs : \E in \in Inputs(p) : GetOrCreateLock(p, "t1", in[1], in[2])
    \/ \E p \in Procs : GetOrCreateBody(p)
    \/ \E p \in Procs : AddMessageLock(p)
    \/ \E p \in Procs : AddMessageBody(p)
    \/ \E p \in Procs : GetMessagesRLock(p, "t1")
    \/ \E p \in Procs : GetMessagesBody(p)
    \/ CleanupLock
    \/ CleanupBody
    \/ Tick
SpecStoreFair == InitOneConfig /\ [][NextStoreOneThread]_vars /\ StoreFairness
SpecMention == InitOneConfig /\ [][NextMention]_vars
InitPruneOnly ==
    InitStore /\ InitIndex /\ InitEvents /\ maxContextChunks = 1 /\ NoSeq /\ InitBroadcast
        /\ InitMention /\ InitPrune
SpecPrune == InitPruneOnly /\ [][NextPrune]_vars

\* ------------------------------------------------------------------------
\* Properties of the conversation store
\* ------------------------------------------------------------------------
Entry(t) == store.conversations[t]
HasEntry(t) == Entry(t) # NoCtx

\* An AddMessage on thread t has started and not yet returned.
WriteInFlight(t) ==
    \E q \in Procs : pc[q] \in {"GetOrCreate", "AddMessage", "append"} /\ arg[q].threadID = t

\* The step in which caller p's GetMessages reads the store and returns.
GetMessagesReads(p) == pc[p] = "GetMessages" /\ pc'[p] = "idle"

\* C1: in every reachable state every stored message sequence (of every
\* thread entry, and of every context an AddMessage still holds) has at most
\* maxMessages messages.
C1_LengthBound ==
    \A c \in CtxIds : Len(store.Messages[c]) <= maxMessages

\* More messages than maxMessages were appended to a thread and its entry is full.
C1_Witness ==
    \E t \in Threads :
        /\ nAppended[t] > maxMessages
        /\ HasEntry(t)
        /\ Len(store.Messages[Entry(t)]) = maxMessages

\* C2: when at least maxMessages messages were appended to a thread whose
\* entry never grew older than maxAge, GetMessages returns exactly the last
\* maxMessages appended messages, in the order they were appended.
C2_KeepsMostRecent ==
    [][\A p \in Procs :
          (GetMessagesReads(p)
             /\ ~expired[arg[p].threadID]
             /\ nAppended[arg[p].threadID] >= maxMessages)
          => returned'.messages = recent[arg[p].threadID]]_vars

\* A GetMessages returned the last maxMessages of more than maxMessages appended.
C2_Witness ==
    /\ returned.caller \in Procs
    /\ ~expired[returned.threadID]
    /\ nAppended[returned.threadID] > maxMessages
    /\ Len(returned.messages) = maxMessages
    /\ returned.messages = recent[returned.threadID]

\* C3: GetMessages returns the stored sequence when the entry exists and
\* now - lastAccessed <= maxAge, and the empty sequence otherwise; when more
\* than maxAge has passed since the last message was appended to the thread
\* (or none ever was) and no AddMessage on it is running, it returns the
\* empty sequence, whether or not cleanup removed the entry.
C3_ExpiryOnRead ==
    [][\A p \in Procs :
          GetMessagesReads(p) =>
            LET t == arg[p].threadID IN
            /\ returned'.messages = IF HasEntry(t) /\ now - store.LastAccessed[Entry(t)] <= maxAge
                                  THEN store.Messages[Entry(t)]
                                  ELSE <<>>
            /\ ( /\ ~WriteInFlight(t)
                 /\ \/ recent[t] = <<>>
                    \/ now - recent[t][Len(recent[t])].Timestamp > maxAge )
               => returned'.messages = <<>>]_vars

\* A GetMessages returned nothing for a thread whose expired entry is still
\* stored, with its messages, because cleanup has not run.
C3_Witness ==
    \E t \in Threads :
        /\ returned.caller \in Procs
        /\ returned.threadID = t
        /\ returned.messages = <<>>
        /\ ~WriteInFlight(t)
        /\ HasEntry(t)
        /\ store.Messages[Entry(t)] # <<>>
        /\ now - store.LastAccessed[Entry(t)] > maxAge

\* C8 (the claim as stated): between an AddMessage's fetch of the entry and
\* the return of its append and trim, no step of another caller or of
\* cleanup is taken.
C8_OneExclusiveSection ==
    [][\A p \in Procs :
          (pc[p] \in {"GetOrCreate", "AddMessage", "append"}
             /\ pc'[p] \in {"GetOrCreate", "AddMessage", "append"})
          => /\ \A q \in Procs \ {p} : pc'[q] = pc[q]
             /\ cpc' = cpc]_vars

\* C9 (the claim as stated): every GetMessages returns what it returns on
\* the store that is driven by the same calls and never swept by cleanup.
C9_CleanupUnobservable ==
    returned.messages = returned.shadowMessages

\* C10: no step of GetMessages (taking the read lock, reading and returning)
\* changes the store: no LastAccessed, no message sequence, no new entry.
C10_GetMessagesReadOnly ==
    [][\A p \in Procs :
          ( \/ pc[p] = "idle" /\ pc'[p] = "GetMessages"
            \/ pc[p] = "GetMessages" /\ pc'[p] = "idle" )
          => store' = store]_vars

\* A GetMessages returned the messages of an entry that was last written at an
\* earlier time; the entry still holds them and its LastAccessed is that time.
C10_Witness ==
    \E t \in Threads :
        /\ returned.caller \in Procs
        /\ returned.threadID = t
        /\ HasEntry(t)
        /\ store.Messages[Entry(t)] # <<>>
        /\ returned.messages = store.Messages[Entry(t)]
        /\ store.LastAccessed[Entry(t)] < now

\* ------------------------------------------------------------------------
\* Properties of the document index
\* ------------------------------------------------------------------------
\* The indexes a LoadFromZip that runs alone can leave, and the one of
\* NewDocumentService.
Generations == {Generation(corpus, ChunkSize) : corpus \in Corpora} \cup {EmptyService}
IsGeneration(chunkList, index) ==
    \E g \in Generations : g.chunks = chunkList /\ g.keywords = index

\* C4: a search never observes a partially rebuilt index: the chunk list and
\* the inverted index that SearchRelevantChunks reads while it scores, and the
\* chunk list it reads while it collects the scored chunks, are those of one
\* fully built generation.
C4_SearchSeesWholeGeneration ==
    /\ searching.pc = "collect" =>
          IsGeneration(searching.index.chunks, searching.index.keywords)
    /\ found.done =>
          /\ IsGeneration(found.index.chunks, found.index.keywords)
          /\ found.chunks = found.index.chunks

\* The search read one index, and no load was changing it.
Undisturbed(search) == search.done /\ search.chunks = search.index.chunks

\* C5: for a fixed index state, two searches with the same query and the same
\* maxChunks return the same chunks, in the same order, with the same scores.
C5_SearchDeterministic ==
    ( /\ Undisturbed(prev)
      /\ Undisturbed(found)
      /\ prev.index = found.index
      /\ prev.query = found.query
      /\ prev.maxChunks = found.maxChunks ) => prev.result = found.result

\* C6: the result is in descending order of score, and chunks of equal score
\* are in ascending order of their position in the chunk list; a chunk left
\* out of the result does not tie with a returned chunk of greater position.
C6_TiesInChunkOrder ==
    Undisturbed(found) /\ ~ReturnsNil(found.index, found.query) =>
        LET scores == ScoreChunks(found.index, found.query)
            pos    == found.positions
        IN  /\ \A i, j \in DOMAIN pos :
                   i < j => /\ ~Greater(scores[pos[j]], scores[pos[i]])
                            /\ scores[pos[i]] = scores[pos[j]] => pos[i] < pos[j]
            /\ \A i \in DOMAIN pos : \A c \in DOMAIN scores :
                   (\A k \in DOMAIN pos : pos[k] # c) /\ scores[c] = scores[pos[i]]
                       => pos[i] < c

\* ------------------------------------------------------------------------
\* Properties of the events listener
\* ------------------------------------------------------------------------
\* C7: for every event id, a handler of the listener runs at most once,
\* however many requests deliver the event and however they interleave.
C7_HandledAtMostOnce ==
    \A l \in Listeners, id \in EventIDs : handled[l][id] <= 1

\* No LoadFromZip is running.
Quiescent == \A l \in Loaders : loading[l].pc = "idle"

C12_IngestTwiceSame ==
    /\ Len(indexed) = 2 =>
          /\ indexed[2].chunks = indexed[1].chunks
          /\ indexed[2].keywords = indexed[1].keywords
    /\ Len(indexed) = 2 /\ Len(results) = 2 => results[2] = results[1]

\* C13: every chunk produced by ingestion has a text of at most chunkSize
\* characters, except a chunk that is one whitespace-delimited word longer
\* than chunkSize, which is kept whole.
C13_ChunkSizeBound ==
    \A i \in 1 .. Len(service.chunks) :
        LET text == service.chunks[i].Content
        IN  \/ Len(text) <= ChunkSize
            \/ Fields(text) = <<text>>
\* An ingested document whose section was split into a chunk within the bound
\* and a chunk that is one word longer than chunkSize.
C13_Witness ==
    /\ phase = "ingested"
    /\ \E i, j \in 1 .. Len(service.chunks) :
          /\ Len(service.chunks[i].ID) = 3
          /\ Len(service.chunks[j].ID) = 3
          /\ Len(service.chunks[i].Content) > ChunkSize
          /\ Len(service.chunks[j].Content) <= ChunkSize

\* The result of the last search and the chunk scores it was ranked by.
LastResult == results[Len(results)]
LastScores == ScoreChunks(service, input.query)
Returned(result) == {result.positions[r] : r \in 1 .. Len(result.positions)}

\* C14: a search returns at most maxResults chunks, none when maxResults is 0,
\* and the returned chunks are the top-scoring ones: no matching chunk left
\* out of the result has a strictly higher score than a returned chunk.
C14_TopScoring ==
    phase = "searched" =>
        /\ Len(LastResult.result) <= input.maxChunks
        /\ Len(LastResult.result) = Len(LastResult.positions)
        /\ ~ReturnsNil(service, input.query) =>
              \A out \in DOMAIN LastScores \ Returned(LastResult) :
                  \A in \in Returned(LastResult) :
                      ~Greater(LastScores[out], LastScores[in])
\* A search that returns maxResults chunks and leaves out a matching chunk of
\* lower score.
C14_Witness ==
    /\ phase = "searched"
    /\ input.maxChunks > 0
    /\ Len(LastResult.result) = input.maxChunks
    /\ \E out \in DOMAIN LastScores \ Returned(LastResult) :
          \E in \in Returned(LastResult) : Greater(LastScores[in], LastScores[out])

\* A query without keywords: every alphabetic token of at least three letters
\* is a stop-word or shorter than four letters.
NoKeywords(query) ==
    LET words == FindAllWords(ToLower(query))
    IN  \A k \in 1 .. Len(words) : words[k] \in stopWords \/ Len(words[k]) < 4

\* C15: a search returns the empty result when the query yields no keywords
\* (empty, only stop-words, only tokens shorter than four letters) and when
\* the index holds no chunks, whatever maxResults is.
C15_EmptyResult ==
    phase = "searched" /\ (NoKeywords(input.query) \/ Len(service.chunks) = 0) =>
        LastResult.result = <<>>
\* A search of a non-empty index for a query whose only token is a three
\* letter word of the indexed text, with room for results.
C15_Witness ==
    /\ phase = "searched"
    /\ Len(service.chunks) > 0
    /\ input.maxChunks > 0
    /\ input.query # <<>>
    /\ NoKeywords(input.query)
    /\ \A k \in 1 .. Len(FindAllWords(input.query)) : FindAllWords(input.query)[k] \notin stopWords
    /\ LastResult.result = <<>>

\* The distinct query keywords contained in the chunk at position c (from 0),
\* and the score the search gives that chunk (0 when no keyword matches).
Matched(c) ==
    {k \in {extractKeywords(ToLower(input.query))[x] :
                x \in 1 .. Len(extractKeywords(ToLower(input.query)))} :
        InSeq(k, service.chunks[c + 1].Keywords)}
ScoreOf(c) ==
    IF c \in DOMAIN LastScores THEN LastScores[c]
    ELSE [NoScore EXCEPT !.total = Len(service.chunks)]
\* a >= b for two scores of one search: a sums at least as many weights as b
\* and the weights a has more are each at least 1 (ln(total / df) >= 0).
AtLeast(a, b) ==
    /\ a.n >= b.n
    /\ a.p <= b.p * Pow(a.total, a.n - b.n)
    /\ ~Greater(b, a)

\* C16: for one index and one query, a chunk that contains every distinct
\* query keyword another chunk contains scores at least as much as that chunk.
C16_SupersetScoresAtLeast ==
    phase # "start" =>
        \A a, b \in 0 .. Len(service.chunks) - 1 :
            Matched(b) \subseteq Matched(a) => AtLeast(ScoreOf(a), ScoreOf(b))
\* Two chunks of the index of which one contains a query keyword and the other
\* that keyword and one more, and scores strictly more.
C16_Witness ==
    /\ phase = "searched"
    /\ \E a, b \in 0 .. Len(service.chunks) - 1 :
          /\ Matched(b) # {}
          /\ Matched(b) \subseteq Matched(a)
          /\ Matched(a) # Matched(b)
          /\ Greater(ScoreOf(a), ScoreOf(b))

\* C17: after the ingest of the two documents "refund policy" (doc A) and
\* "login troubleshooting" (doc B), the search for "how do refunds work" with
\* maxResults 3 returns a chunk of doc A ranked above every chunk of doc B.
C17_RefundRankedFirst ==
    /\ phase = "searched"
    /\ indexed # <<>>
    /\ input = [corpus |-> CorpusRefund, query |-> RefundQuery, maxChunks |-> 3]
    => \E i \in 1 .. Len(LastResult.result) :
          /\ LastResult.result[i].DocPath = CorpusRefund[1].Name
          /\ \A j \in 1 .. Len(LastResult.result) :
                LastResult.result[j].DocPath = CorpusRefund[2].Name => i < j

\* C19: a request with a valid, fresh signature whose payload is of type
\* url_verification is answered with the challenge of the payload:
\* ProcessEvent parses the body bytes the signature check verified.
C19_ChallengeAnswered ==
    [][\A d \in Conns :
          Receive(d, "ProcessEvent", Verification, TRUE) =>
              /\ request'[d].status = 200
              /\ request'[d].written = Verification.Challenge]_vars

\* C20: AddMessage on a thread whose entry is stale (now - lastAccessed >
\* maxAge) clears the old messages and resets lastAccessed before it appends,
\* so that when it returns GetMessages gives exactly the one new message; the
\* cleared messages are in no entry any more and cannot be read again.
C20_StaleThreadRestarts ==
    [][\A p \in Procs :
          /\ GetOrCreateBody(p) /\ Stale(store, arg[p].threadID, now) =>
                /\ store'.Messages[Entry(arg[p].threadID)] = <<>>
                /\ store'.LastAccessed[Entry(arg[p].threadID)] = now
          /\ AddMessageBody(p) /\ arg[p].stale =>
                GetMessagesResult(store', arg[p].threadID, now)
                    = <<Message(arg[p].role, arg[p].content, now)>>]_vars

\* ------------------------------------------------------------------------
\* Properties of the broadcast service
\* ------------------------------------------------------------------------
\* C18: for each correlation id a broadcaster posts at most one message to
\* the monitoring channel, however many requests with that id arrive at
\* /api/broadcast or /api/feedback and however they overlap.
C18_AtMostOnePost ==
    \A b \in Broadcasters, id \in CorrelationIDs : posted[b][id] <= 1

\* ------------------------------------------------------------------------
\* Further properties of the conversation store
\* ------------------------------------------------------------------------
\* C21: a cleanup sweep removes exactly the thread entries with
\* now - lastAccessed > maxAge and leaves every other entry, its messages and
\* its lastAccessed as they were; it never removes an entry for which
\* GetMessages would still return a non-empty history.
C21_CleanupRemovesExactlyStale ==
    [][CleanupBody =>
          \A t \in Threads :
              /\ HasEntry(t) /\ now - store.LastAccessed[Entry(t)] > maxAge =>
                    store'.conversations[t] = NoCtx
              /\ HasEntry(t) /\ now - store.LastAccessed[Entry(t)] <= maxAge =>
                    /\ store'.conversations[t] = Entry(t)
                    /\ store'.Messages[Entry(t)] = store.Messages[Entry(t)]
                    /\ store'.LastAccessed[Entry(t)] = store.LastAccessed[Entry(t)]
              /\ ~HasEntry(t) => store'.conversations[t] = NoCtx
              /\ store'.conversations[t] = NoCtx =>
                    GetMessagesResult(store, t, now) = <<>>]_vars
\* A sweep has removed the entry of a thread that was written to, and has kept
\* the entry of another thread with its messages.
C21_Witness ==
    /\ cpc = "idle"
    /\ \E t1, t2 \in Threads :
          /\ nAppended[t1] > 0
          /\ ~HasEntry(t1)
          /\ HasEntry(t2)
          /\ store.Messages[Entry(t2)] # <<>>
          /\ now - store.LastAccessed[Entry(t2)] <= maxAge

\* ------------------------------------------------------------------------
\* Further properties of the DocumentService used by one caller at a time
\* ------------------------------------------------------------------------
\* The entries of an archive that LoadFromZip can ingest, in archive order.
IsIngested(file) == HasSuffix(ToLower(file.Name), MdSuffix) /\ file.Readable
Remaining(corpus) == SelectSeq(corpus, IsIngested)

\* C22: when a document of a corpus that opens cannot be read, the ingest
\* still succeeds and the index holds exactly the documents, chunks and
\* postings of the remaining documents, in corpus order; the ingest returns
\* an error only when the corpus itself cannot be opened.
C22_UnreadableDocumentSkipped ==
    [][\A opens \in BOOLEAN :
          SeqIngest(opens) =>
              /\ phase' = "failed" <=> ~opens
              /\ opens =>
                    /\ service'.documents =
                          [i \in 1 .. Len(Remaining(input.corpus)) |->
                               Document(Remaining(input.corpus)[i])]
                    /\ service' = LoadFromZip(EmptyService, Remaining(input.corpus), ChunkSize)]_vars
\* An ingest of an archive with an unreadable document between two readable
\* ones has returned without error.
C22_Witness ==
    /\ phase = "ingested"
    /\ \E i \in 1 .. Len(input.corpus) :
          /\ ~input.corpus[i].Readable
          /\ HasSuffix(ToLower(input.corpus[i].Name), MdSuffix)
    /\ Len(service.documents) = 2
    /\ Len(service.chunks) >= 2

\* The service the last successful LoadFromZip left.
PreviousGeneration == IF indexed = <<>> THEN EmptyService ELSE indexed[Len(indexed)]

\* C28: when the corpus source cannot be opened, LoadFromZip returns an error
\* and leaves documents, chunks and the inverted index as they were before
\* the call, so that searches keep answering from the previous generation.
C28_FailedOpenKeepsGeneration ==
    [][/\ SeqIngest(FALSE) => service' = service /\ service' = PreviousGeneration
       /\ phase = "failed" /\ SeqSearch =>
             results'[Len(results')] \in
                 SearchRelevantChunks(PreviousGeneration, input.query, input.maxChunks)]_vars
\* After a successful ingest a second LoadFromZip failed to open the corpus,
\* and the search that followed returned chunks.
C28_Witness ==
    /\ phase = "searched"
    /\ Len(indexed) = 1
    /\ Len(results) = 2
    /\ results[2].result # <<>>

\* The places where the query can be cut into a query and one more keyword
\* that no posting list holds.
AbsentKeywordCuts ==
    {i \in 1 .. Len(input.query) :
        /\ input.query[i] = " "
        /\ extractKeywords(SubSeq(input.query, i + 1, Len(input.query)))
              = <<SubSeq(input.query, i + 1, Len(input.query))>>
        /\ SubSeq(input.query, i + 1, Len(input.query)) \notin DOMAIN service.keywords
        /\ ~InSeq(SubSeq(input.query, i + 1, Len(input.query)),
                  extractKeywords(SubSeq(input.query, 1, i - 1)))}

\* C23: a keyword added to a query that occurs in no posting list does not
\* change the result of the search: the same chunks with the same scores in
\* the same order, and no error.
C23_AbsentKeywordIgnored ==
    phase # "start" =>
        \A i \in AbsentKeywordCuts :
            /\ SearchRelevantChunks(service, input.query, input.maxChunks)
                  = SearchRelevantChunks(service, SubSeq(input.query, 1, i - 1), input.maxChunks)
            /\ phase = "searched" =>
                  LastResult \in SearchRelevantChunks(service, SubSeq(input.query, 1, i - 1),
                                                      input.maxChunks)
\* A search for a query whose last keyword is not indexed returned chunks for
\* the keywords before it.
C23_Witness ==
    /\ phase = "searched"
    /\ AbsentKeywordCuts # {}
    /\ LastResult.result # <<>>

\* C27: the chunks a search returns are in non-increasing order of score, and
\* each returned chunk carries the score it was ranked by, the sum of the
\* weights of the query keywords it contains.
C27_DescendingWithScores ==
    phase = "searched" =>
        /\ \A r \in 1 .. Len(LastResult.result) :
              /\ LastResult.result[r].Score = LastScores[LastResult.positions[r]]
              /\ LastResult.result[r].Score.n = Cardinality(Matched(LastResult.positions[r]))
              /\ LastResult.result[r].Content = service.chunks[LastResult.positions[r] + 1].Content
        /\ \A r \in 1 .. Len(LastResult.result) - 1 :
              ~Greater(LastResult.result[r + 1].Score, LastResult.result[r].Score)
\* A search returned two chunks, the first with a strictly greater score.
C27_Witness ==
    /\ phase = "searched"
    /\ Len(LastResult.result) >= 2
    /\ Greater(LastResult.result[1].Score, LastResult.result[2].Score)

\* ------------------------------------------------------------------------
\* Properties of the handling of a mention
\* ------------------------------------------------------------------------
\* How many messages of a sequence have the content.
Occurrences(msgs, content) == Cardinality({i \in 1 .. Len(msgs) : msgs[i].Content = content})

\* C24: for each handled user message the history is read from the store
\* before the new user turn is appended, so the history the prompt is built
\* from does not contain the current message, and the prompt contains it
\* exactly once.
C24_CurrentMessageOnce ==
    \A g \in Mentioners :
        mention[g].prompt # <<>> =>
            /\ Occurrences(mention[g].history, UserText(mention[g].turn)) = 0
            /\ Occurrences(mention[g].prompt, UserText(mention[g].turn)) = 1

\* C25: after an AddMessage on a thread has returned, a GetMessages on the
\* thread that starts within maxAge of that return and before maxMessages
\* further messages were appended returns a sequence that contains the
\* message, whatever ran between the steps of the AddMessage.
C25_ReadYourWrites ==
    [][\A p \in Procs :
          GetMessagesReads(p) =>
              \A i \in 1 .. Len(recent[arg[p].threadID]) :
                  now - recent[arg[p].threadID][i].Timestamp <= maxAge =>
                      InSeq(recent[arg[p].threadID][i], returned'.messages)]_vars

\* C26: the time-to-live slides on writes: AddMessage sets the thread's
\* lastAccessed to the time of the call and keeps the history of an entry
\* that is not older than maxAge, so a thread whose entry never grew older
\* than maxAge loses nothing to expiry and GetMessages returns all retained
\* messages, the last maxMessages at most.
C26_SlidingTimeToLive ==
    [][\A p \in Procs :
          /\ GetOrCreateBody(p) =>
                /\ HasEntry(arg[p].threadID)'
                /\ store'.LastAccessed[Entry(arg[p].threadID)'] = now
                /\ HasEntry(arg[p].threadID)
                     /\ now - store.LastAccessed[Entry(arg[p].threadID)] <= maxAge
                   => /\ Entry(arg[p].threadID)' = Entry(arg[p].threadID)
                      /\ store'.Messages[Entry(arg[p].threadID)]
                            = store.Messages[Entry(arg[p].threadID)]
          /\ GetMessagesReads(p) /\ ~expired[arg[p].threadID] =>
                returned'.messages = recent[arg[p].threadID]]_vars
\* A GetMessages returned two messages of which the first was appended more
\* than maxAge ago: a later write kept the thread alive.
C26_Witness ==
    /\ Len(returned.messages) >= 2
    /\ now - returned.messages[1].Timestamp > maxAge
    /\ ~expired[returned.threadID]

\* ------------------------------------------------------------------------
\* Properties of the size-capped maps
\* ------------------------------------------------------------------------
\* C29: an identifier that has just been marked processed is reported as
\* processed by the next isEventProcessed / isMessageProcessed call for it:
\* the pruning its marking may trigger never evicts it.
C29_JustMarkedStillSeen ==
    [][\A s \in CappedMaps, id \in FollowedIDs :
          IsProcessed(s, id) /\ lastMarked[s] = id => asked'.answer]_vars

\* ------------------------------------------------------------------------
\* Termination of the store's calls
\* ------------------------------------------------------------------------
\* Who holds the store lock is exactly who is inside a locked section: a
\* caller about to acquire the lock (idle, or between the two sections of
\* AddMessage) never holds it already.
LockMatchesSections ==
    /\ \A p \in Procs : (mutex.w = p) <=> (pc[p] \in {"GetOrCreate", "append"})
    /\ \A p \in Procs : (p \in mutex.r) <=> (pc[p] = "GetMessages")
    /\ (mutex.w = Cleaner) <=> (cpc = "cleanup")
    /\ mutex.w # NoOne => mutex.r = {}

\* C30: under any interleaving of AddMessage, GetMessages and cleanup no call
\* blocks forever: the lock is never acquired by a caller that already holds
\* it, every acquisition is followed by a release, and under fair scheduling
\* every call that has started returns.
C30_EveryCallReturns ==
    /\ []LockMatchesSections
    /\ \A p \in Procs : (pc[p] # "idle") ~> (pc[p] = "idle")
    /\ (cpc = "cleanup") ~> (cpc = "idle")

\* An AddMessage waits for its second acquisition while the cleanup holds the lock.
C30_Witness ==
    \E p \in Procs : pc[p] = "AddMessage" /\ mutex.w = Cleaner

\* ------------------------------------------------------------------------
\* Properties of search as a reader of the index
\* ------------------------------------------------------------------------
\* The service as the last successful ingest left it.
AsIngested == IF indexed = <<>> THEN EmptyService ELSE indexed[Len(indexed)]

\* C31: a search does not modify the index: documents, chunks (every stored
\* chunk's Score stays unset) and posting lists are after SearchRelevantChunks
\* what the ingest left; scores are on the returned copies only.
C31_SearchReadOnly ==
    phase = "searched" =>
        /\ service = AsIngested
        /\ \A i \in 1 .. Len(service.chunks) : service.chunks[i].Score = NoScore
        /\ \A r \in 1 .. Len(LastResult.result) : LastResult.result[r].Score # NoScore
\* A search has returned a scored copy of a stored chunk.
C31_Witness ==
    /\ phase = "searched"
    /\ LastResult.result # <<>>
    /\ LastResult.result[1].Score.n > 0
    /\ service.chunks[LastResult.positions[1] + 1].Score = NoScore

\* ------------------------------------------------------------------------
\* Properties of keywords and posting lists
\* ------------------------------------------------------------------------
\* A lowercase alphabetic token of length at least 4 outside the stop-list.
IsKeyword(word) ==
    /\ Len(word) >= 4
    /\ \A i \in 1 .. Len(word) : IsLower(word[i])
    /\ word \notin stopWords
NoRepeat(seq) == \A i, j \in 1 .. Len(seq) : i # j => seq[i] # seq[j]
\* The keywords SearchRelevantChunks extracts from the query.
QueryWords == extractKeywords(ToLower(input.query))

\* C32: every keyword stored for a chunk and every keyword extracted from a
\* query is a lowercase alphabetic token of length at least 4 outside the
\* stop-list and occurs once in its keyword list; a chunk's text given as a
\* query yields the chunk's keywords (one tokenizer for both).
C32_KeywordsWellFormed ==
    /\ \A i \in 1 .. Len(service.chunks) :
          LET chunk == service.chunks[i]
          IN  /\ \A k \in 1 .. Len(chunk.Keywords) : IsKeyword(chunk.Keywords[k])
              /\ NoRepeat(chunk.Keywords)
              /\ extractKeywords(ToLower(chunk.Content)) = chunk.Keywords
    /\ \A k \in 1 .. Len(QueryWords) : IsKeyword(QueryWords[k])
    /\ NoRepeat(QueryWords)
\* An ingested chunk whose text holds more words than it has keywords (a
\* repeated word, a stop word or a short word was left out), searched with a
\* query that also loses a word.
C32_Witness ==
    /\ phase = "searched"
    /\ \E i \in 1 .. Len(service.chunks) :
          /\ service.chunks[i].Keywords # <<>>
          /\ Len(FindAllWords(ToLower(service.chunks[i].Content)))
                 > Len(service.chunks[i].Keywords)
    /\ QueryWords # <<>>
    /\ Len(Fields(input.query)) > Len(QueryWords)

StrictlyIncreasing(list) == \A i, j \in 1 .. Len(list) : i < j => list[i] < list[j]
\* The query keywords that chunk position c holds.
HeldBy(c) == {k \in 1 .. Len(QueryWords) : InSeq(QueryWords[k], service.chunks[c + 1].Keywords)}

\* C33: every posting list is strictly increasing in chunk position, so a
\* chunk holding a query keyword gets that keyword's weight once however
\* often the word occurs in it: its score is a sum of as many weights as it
\* holds query keywords.
C33_PostingsStrictlyIncreasing ==
    /\ \A keyword \in DOMAIN service.keywords : StrictlyIncreasing(service.keywords[keyword])
    /\ phase = "searched" /\ ~ReturnsNil(service, input.query) =>
          \A c \in DOMAIN LastScores : LastScores[c].n = Cardinality(HeldBy(c))
\* A search for a word that a returned chunk holds twice.
C33_Witness ==
    /\ phase = "searched"
    /\ \E r \in 1 .. Len(LastResult.result) :
          LET words == FindAllWords(ToLower(LastResult.result[r].Content))
          IN  \E i, j \in 1 .. Len(words) :
                  i # j /\ words[i] = words[j] /\ InSeq(words[i], QueryWords)

\* ------------------------------------------------------------------------
\* Properties of chunking
\* ------------------------------------------------------------------------
\* Chunk positions i and i + 1 are successive sub-chunks of one split section.
SuccessiveSubChunks(i) ==
    /\ i + 1 <= Len(service.chunks)
    /\ Len(service.chunks[i].ID) = 3
    /\ Len(service.chunks[i + 1].ID) = 3
    /\ service.chunks[i].ID[1] = service.chunks[i + 1].ID[1]
    /\ service.chunks[i].ID[2] = service.chunks[i + 1].ID[2]
    /\ service.chunks[i].ID[3] + 1 = service.chunks[i + 1].ID[3]
\* The words joined by single spaces.
RECURSIVE Joined(_)
Joined(words) ==
    IF words = <<>> THEN <<>>
    ELSE IF Len(words) = 1 THEN words[1]
    ELSE words[1] \o <<" ">> \o Joined(Tail(words))

\* C34: a section longer than chunkSize is packed greedily: every sub-chunk
\* but the last is maximal (its length plus a space plus the first word of
\* the next sub-chunk exceeds chunkSize), and a sub-chunk is whole words
\* joined by single spaces.
C34_GreedyPacking ==
    \A i \in 1 .. Len(service.chunks) :
        /\ SuccessiveSubChunks(i) =>
              Len(service.chunks[i].Content) + 1
                  + Len(Fields(service.chunks[i + 1].Content)[1]) > ChunkSize
        /\ Len(service.chunks[i].ID) = 3 =>
              /\ Fields(service.chunks[i].Content) # <<>>
              /\ service.chunks[i].Content = Joined(Fields(service.chunks[i].Content))
\* A section was split and a sub-chunk of several words is followed by another.
C34_Witness ==
    /\ phase = "ingested"
    /\ \E i \in 1 .. Len(service.chunks) :
          SuccessiveSubChunks(i) /\ Len(Fields(service.chunks[i].Content)) >= 2

\* The words of the chunks of document d, in chunk order.
RECURSIVE ChunkWords(_, _)
ChunkWords(chunkList, path) ==
    IF chunkList = <<>> THEN <<>>
    ELSE (IF Head(chunkList).DocPath = path THEN Fields(Head(chunkList).Content) ELSE <<>>)
             \o ChunkWords(Tail(chunkList), path)

\* C35: chunking preserves content: for every ingested document the words of
\* its chunks in chunk order are the words of its text in the same order, and
\* every chunk belongs to exactly one document of the generation.
C35_ChunkingPreservesWords ==
    /\ \A d \in 1 .. Len(service.documents) :
          ChunkWords(service.chunks, service.documents[d].Path)
              = Fields(service.documents[d].Content)
    /\ \A i \in 1 .. Len(service.chunks) :
          Cardinality({d \in 1 .. Len(service.documents) :
                          service.documents[d].Path = service.chunks[i].DocPath}) = 1
\* Two documents were ingested, one in several sections and one whose section
\* was split into sub-chunks.
C35_Witness ==
    /\ phase = "ingested"
    /\ Len(service.documents) >= 2
    /\ \E i \in 1 .. Len(service.chunks) : Len(service.chunks[i].ID) = 3
    /\ Len(service.chunks) > Len(service.documents)

\* The score of no weight at all, for a service of the same number of chunks.
ZeroOf(score) == [NoScore EXCEPT !.total = score.total]

\* C38: every chunk a search returns holds at least one of the query's
\* keywords and has a score above zero; a chunk holding none of them is not
\* returned, also when fewer than maxResults chunks match.
C38_ReturnedChunksMatch ==
    phase = "searched" =>
        \A r \in 1 .. Len(LastResult.result) :
            /\ HeldBy(LastResult.positions[r]) # {}
            /\ \E k \in 1 .. Len(QueryWords) :
                  InSeq(QueryWords[k], LastResult.result[r].Keywords)
            /\ Greater(LastResult.result[r].Score, ZeroOf(LastResult.result[r].Score))
\* A search returned fewer chunks than maxResults while the index held a
\* chunk with none of the query's keywords.
C38_Witness ==
    /\ phase = "searched"
    /\ LastResult.result # <<>>
    /\ Len(LastResult.result) < input.maxChunks
    /\ \E c \in 0 .. (Len(service.chunks) - 1) : HeldBy(c) = {}

\* ------------------------------------------------------------------------
\* Properties of the marks of the broadcast handlers
\* ------------------------------------------------------------------------
\* C36: a correlation id marked processed by a broadcast handler is never
\* unmarked, so that after a post that failed every later request with the
\* same id finds it marked and is answered 200 without a post.
C36_NeverUnmarked ==
    [][seen["BroadcastService"].followed \subseteq seen'["BroadcastService"].followed]_vars

\* ------------------------------------------------------------------------
\* Isolation of the threads of the store
\* ------------------------------------------------------------------------
\* What the store holds for thread u: whether it has an entry, and the
\* entry's messages and LastAccessed.
EntryOf(st, u) ==
    IF st.conversations[u] = NoCtx
    THEN [present |-> FALSE, Messages |-> <<>>, LastAccessed |-> 0]
    ELSE [present |-> TRUE, Messages |-> st.Messages[st.conversations[u]],
          LastAccessed |-> st.LastAccessed[st.conversations[u]]]

\* C37: threads are isolated: the steps of AddMessage(t, ...) and
\* GetMessages(t) leave the messages and LastAccessed of every other thread
\* unchanged, and GetMessages(t) returns no message of another thread: it
\* returns at most as many messages as were appended to t.
C37_ThreadsIsolated ==
    [][\A p \in Procs :
          /\ (pc[p] \in {"GetOrCreate", "append", "GetMessages"} /\ pc'[p] # pc[p]) =>
                \A u \in Threads \ {arg[p].threadID} : EntryOf(store', u) = EntryOf(store, u)
          /\ returned'.caller = p =>
                Len(returned'.messages) <= nAppended[returned'.threadID]]_vars
\* GetMessages returns the messages of one thread while the other thread
\* holds different messages.
C37_Witness ==
    /\ returned.caller # NoOne
    /\ returned.messages # <<>>
    /\ \E u \in Threads \ {returned.threadID} :
          /\ EntryOf(store, u).present
          /\ EntryOf(store, u).Messages # <<>>
          /\ EntryOf(store, u).Messages # returned.messages

====
